---- MODULE Spec2Model ----
(***************************************************************************)
(* kv.js: the keyspace (store), the deadline table (expireTimes), the      *)
(* cleanup timers and the commands that read and write them, as a state    *)
(* machine.  Time is Date.now() in milliseconds.                           *)
(***************************************************************************)
EXTENDS Integers, Sequences, FiniteSets, TLC

----------------------------------------------------------------------------
(* Bounds of the model *)

\* Date.now() advances at most MaxTicks times
MaxTicks == 2
\* leaked interval timers are counted up to MaxLeaked ("MaxLeaked or more")
MaxLeaked == 1
\* incrby is not applied once the counter has reached MaxCounter
MaxCounter == 1
\* longest argument list of the variadic commands del, exists, mget
MaxArgs == 2

\* entries one shard of an XMap holds before a new shard is allocated; stands
\* for 8388608
ShardCapacity == 2

\* longest list followed
MaxList == 2

\* scores are 1..MaxScore
MaxScore == 3

\* shards an XMap is followed up to
MaxShards == 3

\* Date.now() when the instance is constructed and after i advances of half a
\* second each
Clock(i) == 2000 + 500 * i

\* milliseconds per second: the factor in `ex * 1000`, `seconds * 1000`
MsPerSec == 1000

Keys == {"k1", "k2"}
\* scalar values: numerals, which incrby accepts
Values == {"0", "1"}

\* JavaScript's undefined and true, as results of commands
Undefined == "undefined"
True == "true"

----------------------------------------------------------------------------
(* JavaScript numbers given as option values.  A number is its integer    *)
(* part and whether a fractional part follows it (0.5 is Frac(0)).        *)

Num(n) == [given |-> TRUE, int |-> n, frac |-> FALSE]
Frac(n) == [given |-> TRUE, int |-> n, frac |-> TRUE]
NotGiven == [given |-> FALSE, int |-> 0, frac |-> FALSE]

\* `EX ? ... : undefined`: undefined and 0 are falsy, every other number truthy
Truthy(x) == x.given /\ (x.int # 0 \/ x.frac)

\* parseInt(x, 10) of a number: the digits before the decimal point
parseInt(x) == x.int

\* the numerals Number() parses and toString() prints
Numerals == <<"0", "1", "2", "3">>

IsNumeral(v) == \E i \in 1..Len(Numerals) : Numerals[i] = v

\* Number(value) of a numeral string
Number(v) == (CHOOSE i \in 1..Len(Numerals) : Numerals[i] = v) - 1

\* n.toString() for a small non-negative integer
toString(n) == Numerals[n + 1]

Min(a, b) == IF a < b THEN a ELSE b

----------------------------------------------------------------------------
(* XMap below the shard capacity: one Map.  The store keeps its entries   *)
(* in insertion order (keys() and scan() iterate it); the deadline table  *)
(* is only looked up by key, so it is a function on the keys it holds.    *)

\* XMap.has on the store
XHas(m, key) == \E i \in 1..Len(m) : m[i].k = key

\* XMap.get on the store
XGet(m, key) ==
    IF XHas(m, key)
    THEN m[CHOOSE i \in 1..Len(m) : m[i].k = key].v
    ELSE Undefined

\* XMap.set on the store: an existing key keeps its place, a new one is appended
XSet(m, key, value) ==
    IF XHas(m, key)
    THEN [i \in 1..Len(m) |-> IF m[i].k = key THEN [k |-> key, v |-> value] ELSE m[i]]
    ELSE Append(m, [k |-> key, v |-> value])

\* XMap.delete on the store
XDelete(m, key) == SelectSeq(m, LAMBDA e : e.k # key)

\* XMap.size of the store
XSize(m) == Len(m)

\* XMap.has / set / delete on the deadline table
EHas(e, key) == key \in DOMAIN e

ESet(e, key, t) == [x \in (DOMAIN e) \cup {key} |-> IF x = key THEN t ELSE e[x]]

EDelete(e, key) == [x \in (DOMAIN e) \ {key} |-> e[x]]

EmptyTable == [x \in {} |-> 0]

(* XMap with its shards: the pool is the sequence #pool of Maps, each Map   *)
(* the sequence of its entries; XHas, XGet, XSet and XDelete above are the *)
(* operations of one Map.                                                  *)

\* new XMap(), and clear()
poolClear == << <<>> >>

RECURSIVE poolSizeFrom(_, _)
poolSizeFrom(pool, i) ==
    IF i > Len(pool) THEN 0 ELSE Len(pool[i]) + poolSizeFrom(pool, i + 1)

\* get size()
poolSize(pool) == poolSizeFrom(pool, 1)

\* the shards that hold key
holders(pool, key) == {i \in 1..Len(pool) : XHas(pool[i], key)}

first(S) == CHOOSE i \in S : \A j \in S : i <= j

\* has(key)
poolHas(pool, key) == holders(pool, key) # {}

\* get(key)
poolGet(pool, key) ==
    IF holders(pool, key) = {} THEN Undefined
    ELSE XGet(pool[first(holders(pool, key))], key)

\* delete(key): <<pool, whether an entry was removed>>
poolDelete(pool, key) ==
    IF holders(pool, key) = {} THEN <<pool, FALSE>>
    ELSE <<[pool EXCEPT ![first(holders(pool, key))] = XDelete(@, key)], TRUE>>

\* set that leaves a new key out when the front shard is full
poolSetNoGrow(pool, key, value) ==
    LET target == IF holders(pool, key) = {} THEN 1 ELSE first(holders(pool, key))
    IN  IF ~XHas(pool[target], key) /\ Len(pool[target]) >= ShardCapacity
        THEN pool
        ELSE [pool EXCEPT ![target] = XSet(@, key, value)]

\* set that does not look for the shard that already holds the key
poolSetFront(pool, key, value) ==
    IF ~XHas(pool[1], key) /\ Len(pool[1]) >= ShardCapacity
    THEN << XSet(<<>>, key, value) >> \o pool
    ELSE [pool EXCEPT ![1] = XSet(@, key, value)]

\* set that allocates only once the front shard is over its capacity
poolSetLate(pool, key, value) ==
    LET target == IF holders(pool, key) = {} THEN 1 ELSE first(holders(pool, key))
    IN  IF ~XHas(pool[target], key) /\ Len(pool[target]) > ShardCapacity
        THEN << XSet(<<>>, key, value) >> \o pool
        ELSE [pool EXCEPT ![target] = XSet(@, key, value)]

\* set(key, value)
poolSet(pool, key, value) ==
    LET target == IF holders(pool, key) = {} THEN 1 ELSE first(holders(pool, key))
    IN  IF ~XHas(pool[target], key) /\ Len(pool[target]) >= ShardCapacity
        THEN << XSet(<<>>, key, value) >> \o pool
        ELSE [pool EXCEPT ![target] = XSet(@, key, value)]

\* Map.keys() and Map.values() of one shard
shardKeys(map) == [i \in 1..Len(map) |-> map[i].k]

shardValues(map) == [i \in 1..Len(map) |-> map[i].v]

\* for (const map of this.#pool) yield* ...: the shards' sequences one after
\* the other, from shard i on
RECURSIVE yieldFrom(_, _)
yieldFrom(seqs, i) ==
    IF i > Len(seqs) THEN <<>> ELSE seqs[i] \o yieldFrom(seqs, i + 1)

\* the same loop run from the last shard to the first
RECURSIVE yieldBack(_, _)
yieldBack(seqs, i) ==
    IF i < 1 THEN <<>> ELSE seqs[i] \o yieldBack(seqs, i - 1)

poolKeysOldestFirst(pool) ==
    yieldBack([i \in 1..Len(pool) |-> shardKeys(pool[i])], Len(pool))

\* [Symbol.iterator](), entries() and the pairs forEach hands to its callback
poolEntries(pool) == yieldFrom(pool, 1)

\* keys()
poolKeys(pool) == yieldFrom([i \in 1..Len(pool) |-> shardKeys(pool[i])], 1)

\* values()
poolValues(pool) == yieldFrom([i \in 1..Len(pool) |-> shardValues(pool[i])], 1)

----------------------------------------------------------------------------
(* The instance.  An instance state s is the record                       *)
(*   store, expireTimes : the two XMaps                                    *)
(*   cleanupLoop        : this.cleanupLoop, "none" | "active" | "cleared"  *)
(*   leaked             : interval timers still scheduled whose handle    *)
(*                        this.cleanupLoop no longer holds                 *)
(* Every command is an operator from an instance state (and the clock) to *)
(* the next instance state and the returned value.                         *)

VARIABLES store, expireTimes, cleanupLoop, leaked, now, last, walk, xmap, idb

vars == <<store, expireTimes, cleanupLoop, leaked, now, last, walk, xmap, idb>>

\* `last` on a new instance, before any command has run
NoCall == [op |-> "new", keys |-> <<>>, opt |-> "none", ret |-> Undefined, err |-> FALSE]

Cur == [store |-> store, expireTimes |-> expireTimes,
        cleanupLoop |-> cleanupLoop, leaked |-> leaked, idb |-> idb]

\* a command's outcome: the next instance state, the returned value, and
\* whether the command threw instead of returning
R(s, ret) == [s |-> s, ret |-> ret, err |-> FALSE]

Throw(s) == [s |-> s, ret |-> Undefined, err |-> TRUE]

(* The durable mirror.  s.idb holds this.isIndexedDBAvailable, whether     *)
(* this.db is set, this.isInitialized, the two object stores of the       *)
(* database (key -> value and key -> expireTime) and the records the      *)
(* startup load has read.  A write to the database is requested inside    *)
(* the command that makes it, and requests are served in the order of     *)
(* their transactions.                                                    *)

\* an instance without dbName, or outside a browser
NoIndexedDB == [isIndexedDBAvailable |-> FALSE, db |-> FALSE, isInitialized |-> TRUE,
                store |-> EmptyTable, expireTimes |-> EmptyTable,
                storeData |-> <<>>, expireTimesData |-> <<>>]

\* `this.isIndexedDBAvailable && this.db`
mirrored(s) == s.idb.isIndexedDBAvailable /\ s.idb.db

\* _persistToIndexedDB behind its guard
persistToIndexedDB(s, key, value) ==
    IF mirrored(s) THEN [s EXCEPT !.idb.store = ESet(@, key, value)] ELSE s

\* _persistExpirationToIndexedDB behind its guard; <<>> is `undefined`
persistExpirationToIndexedDB(s, key, expireTime) ==
    IF ~mirrored(s) THEN s
    ELSE IF expireTime # <<>> THEN [s EXCEPT !.idb.expireTimes = ESet(@, key, expireTime[1])]
    ELSE [s EXCEPT !.idb.expireTimes = EDelete(@, key)]

\* _removeFromIndexedDB behind its guard
removeFromIndexedDB(s, key) ==
    IF mirrored(s)
    THEN [s EXCEPT !.idb.store = EDelete(@, key), !.idb.expireTimes = EDelete(@, key)]
    ELSE s

\* _clearIndexedDB behind its guard
clearIndexedDB(s) ==
    IF mirrored(s)
    THEN [s EXCEPT !.idb.store = EmptyTable, !.idb.expireTimes = EmptyTable]
    ELSE s

\* _initCleanupLoop: a new interval timer whenever a write leaves exactly one key
initCleanupLoop(s) ==
    IF XSize(s.store) = 1
    THEN [s EXCEPT !.cleanupLoop = "active",
                   !.leaked = IF s.cleanupLoop = "active"
                              THEN Min(s.leaked + 1, MaxLeaked)
                              ELSE s.leaked]
    ELSE s

\* this.storeSet
storeSet(s, key, value) ==
    persistToIndexedDB(initCleanupLoop([s EXCEPT !.store = XSet(s.store, key, value)]),
                       key, value)

\* the test of _checkAndRemoveExpiredKey: `expireTime && Date.now() > expireTime`
isExpired(s, t, key) ==
    /\ EHas(s.expireTimes, key)
    /\ s.expireTimes[key] # 0
    /\ t > s.expireTimes[key]

\* _checkAndRemoveExpiredKey
checkAndRemoveExpiredKey(s, t, key) ==
    IF isExpired(s, t, key)
    THEN R(removeFromIndexedDB([s EXCEPT !.store = XDelete(s.store, key),
                                         !.expireTimes = EDelete(s.expireTimes, key)],
                               key), TRUE)
    ELSE R(s, FALSE)


----------------------------------------------------------------------------
(* Strings *)

\* set(key, value, options)
set(s, t, key, value, o) ==
    LET ex == IF Truthy(o.EX) THEN <<parseInt(o.EX)>> ELSE <<>>
        px == IF Truthy(o.PX) THEN <<parseInt(o.PX)>> ELSE <<>>
        exat == IF Truthy(o.EXAT) THEN <<parseInt(o.EXAT)>> ELSE <<>>
        pxat == IF Truthy(o.PXAT) THEN <<parseInt(o.PXAT)>> ELSE <<>>
        exists == XHas(s.store, key)
        oldValue == IF o.GET /\ exists THEN XGet(s.store, key) ELSE Undefined
        s1 == storeSet(s, key, value)
        \* <<>> is `expireTime === undefined`
        expireTime ==
            IF ex # <<>> THEN <<t + ex[1] * MsPerSec>>
            ELSE IF px # <<>> THEN <<t + px[1]>>
            ELSE IF exat # <<>> THEN <<exat[1] * MsPerSec>>
            ELSE IF pxat # <<>> THEN <<pxat[1]>>
            ELSE IF o.KEEPTTL /\ exists /\ EHas(s1.expireTimes, key)
                 THEN <<s1.expireTimes[key]>>
            ELSE <<>>
        s2 == IF ex # <<>> \/ px # <<>> \/ exat # <<>> \/ pxat # <<>> \/ o.KEEPTTL
              THEN IF expireTime # <<>>
                   THEN persistExpirationToIndexedDB(
                            [s1 EXCEPT !.expireTimes = ESet(s1.expireTimes, key, expireTime[1])],
                            key, expireTime)
                   ELSE s1
              ELSE persistExpirationToIndexedDB(
                       [s1 EXCEPT !.expireTimes = EDelete(s1.expireTimes, key)], key, <<>>)
    IN  IF o.XX /\ ~exists THEN R(s, Undefined)
        ELSE IF o.NX /\ exists THEN R(s, Undefined)
        ELSE R(s2, IF o.GET THEN oldValue ELSE True)

\* get(key)
get(s, t, key) ==
    LET c == checkAndRemoveExpiredKey(s, t, key)
    IN  IF c.ret THEN R(c.s, Undefined)
        ELSE R(c.s, XGet(c.s.store, key))

\* the loop of del(...keys) from argument i on, numDeleted so far
RECURSIVE delLoop(_, _, _, _, _)
delLoop(s, t, keys, i, numDeleted) ==
    IF i > Len(keys) THEN R(s, numDeleted)
    ELSE LET c == checkAndRemoveExpiredKey(s, t, keys[i])
         IN  IF c.ret THEN delLoop(c.s, t, keys, i + 1, numDeleted)
             ELSE IF XHas(c.s.store, keys[i])
                  THEN delLoop(removeFromIndexedDB(
                                   [c.s EXCEPT !.store = XDelete(c.s.store, keys[i]),
                                               !.expireTimes = EDelete(c.s.expireTimes, keys[i])],
                                   keys[i]),
                               t, keys, i + 1, numDeleted + 1)
                  ELSE delLoop(c.s, t, keys, i + 1, numDeleted)

\* del that forgets `this.expireTimes.delete(key)`
delKeepsDeadline(s, t, keys) ==
    LET r == delLoop(s, t, keys, 1, 0)
    IN  R([r.s EXCEPT !.expireTimes = s.expireTimes], r.ret)

\* del(...keys)
del(s, t, keys) == delLoop(s, t, keys, 1, 0)

\* the loop of exists(...keys)
RECURSIVE existsLoop(_, _, _, _, _)
existsLoop(s, t, keys, i, numExists) ==
    IF i > Len(keys) THEN R(s, numExists)
    ELSE LET c == checkAndRemoveExpiredKey(s, t, keys[i])
         IN  IF c.ret THEN existsLoop(c.s, t, keys, i + 1, numExists)
             ELSE existsLoop(c.s, t, keys, i + 1,
                             IF XHas(c.s.store, keys[i]) THEN numExists + 1 ELSE numExists)

\* exists(...keys)
exists(s, t, keys) == existsLoop(s, t, keys, 1, 0)

\* incrby(key, increment)
incrby(s, t, key, increment) ==
    LET value == XGet(s.store, key)
    IN  IF value # Undefined /\ ~IsNumeral(value) THEN Throw(s)
        ELSE LET newValue == (IF value = Undefined THEN 0 ELSE Number(value)) + increment
             IN  R(storeSet(s, key, toString(newValue)), newValue)

\* mget(...keys): keys.map(key => this.get(key))
RECURSIVE mgetLoop(_, _, _, _, _)
mgetLoop(s, t, keys, i, out) ==
    IF i > Len(keys) THEN R(s, out)
    ELSE LET g == get(s, t, keys[i])
         IN  mgetLoop(g.s, t, keys, i + 1, Append(out, g.ret))

mget(s, t, keys) == mgetLoop(s, t, keys, 1, <<>>)

\* type(key): `typeof value`, every scalar value here is a string
type(s, t, key) ==
    IF ~XHas(s.store, key) THEN R(s, "none") ELSE R(s, "string")

----------------------------------------------------------------------------
(* Listing keys *)

\* the characters of the strings used as keys and as patterns
Chars ==
    [str \in {"", "*", "?", "k1", "k2", "a", "b", "A", "Ab", "ab", "ba", "a*", "B*", "*a", "a?"} |->
        CASE str = "" -> <<>>
          [] str = "*" -> <<"*">>
          [] str = "?" -> <<"?">>
          [] str = "k1" -> <<"k", "1">>
          [] str = "k2" -> <<"k", "2">>
          [] str = "a" -> <<"a">>
          [] str = "b" -> <<"b">>
          [] str = "A" -> <<"A">>
          [] str = "Ab" -> <<"A", "b">>
          [] str = "ab" -> <<"a", "b">>
          [] str = "ba" -> <<"b", "a">>
          [] str = "a*" -> <<"a", "*">>
          [] str = "B*" -> <<"B", "*">>
          [] str = "*a" -> <<"*", "a">>
          [] str = "a?" -> <<"a", "?">>]

\* toLowerCase() of one character, of a string
LowerChar(c) == IF c = "A" THEN "a" ELSE IF c = "B" THEN "b" ELSE c

toLowerCase(cs) == [i \in 1..Len(cs) |-> LowerChar(cs[i])]

\* the regular expression built from the pattern, anchored by ^ and $ and with
\* flag i, tested against the string: * is `.*`, ? is `.`, every other
\* character stands for itself
RECURSIVE regexTest(_, _)
regexTest(cs, pat) ==
    IF pat = <<>> THEN cs = <<>>
    ELSE IF Head(pat) = "*"
         THEN regexTest(cs, Tail(pat)) \/ (cs # <<>> /\ regexTest(Tail(cs), pat))
    ELSE IF Head(pat) = "?"
         THEN cs # <<>> /\ regexTest(Tail(cs), Tail(pat))
    ELSE cs # <<>> /\ LowerChar(Head(cs)) = Head(pat) /\ regexTest(Tail(cs), Tail(pat))

\* simpleMatch with the matching done on the first character only
simpleMatchUnanchored(str, pattern) ==
    LET lowerStr == toLowerCase(Chars[str])
        lowerPattern == toLowerCase(Chars[pattern])
    IN  IF lowerPattern = <<>> THEN FALSE
        ELSE IF \A i \in 1..Len(lowerPattern) : lowerPattern[i] \notin {"*", "?", "[", "{"}
             THEN lowerStr # <<>> /\ Head(lowerStr) = Head(lowerPattern)
        ELSE regexTest(Chars[str], lowerPattern)

\* simpleMatch(str, pattern), for patterns without "[" and "{" (the branches
\* for brace expansion and character classes are not entered by them)
simpleMatch(str, pattern) ==
    LET lowerStr == toLowerCase(Chars[str])
        lowerPattern == toLowerCase(Chars[pattern])
    IN  IF lowerPattern = <<>> THEN FALSE
        ELSE IF \A i \in 1..Len(lowerPattern) : lowerPattern[i] \notin {"*", "?", "[", "{"}
             THEN lowerStr = lowerPattern
        ELSE regexTest(Chars[str], lowerPattern)

\* keys(pattern): the store's keys in iteration order that match and whose
\* deadline is absent or later than now
RECURSIVE keysLoop(_, _, _, _)
keysLoop(s, t, pattern, i) ==
    IF i > Len(s.store) THEN <<>>
    ELSE LET key == s.store[i].k
             live == ~EHas(s.expireTimes, key) \/ s.expireTimes[key] > t
         IN  (IF simpleMatch(key, pattern) /\ live THEN <<key>> ELSE <<>>)
             \o keysLoop(s, t, pattern, i + 1)

keys(s, t, pattern) == R(s, keysLoop(s, t, pattern, 1))

\* scan whose next cursor is the end index even at the end of the keys
scanNoWrap(s, t, cursor, match, count) ==
    LET ks == keys(s, t, match).ret
        endIndex == Min(cursor + count, Len(ks))
    IN  R(s, <<endIndex, SubSeq(ks, cursor + 1, endIndex)>>)

\* scan whose page runs through the key at the end index
scanInclusive(s, t, cursor, match, count) ==
    LET ks == keys(s, t, match).ret
        endIndex == Min(cursor + count, Len(ks))
        nextCursor == IF endIndex = Len(ks) THEN 0 ELSE endIndex
    IN  R(s, <<nextCursor, SubSeq(ks, cursor + 1, Min(endIndex + 1, Len(ks)))>>)

\* scan(cursor, match, count): <<nextCursor, page>>
scan(s, t, cursor, match, count) ==
    LET ks == keys(s, t, match).ret
        endIndex == Min(cursor + count, Len(ks))
        nextCursor == IF endIndex = Len(ks) THEN 0 ELSE endIndex
    IN  R(s, <<nextCursor, SubSeq(ks, cursor + 1, endIndex)>>)


----------------------------------------------------------------------------
(* Deadlines.  An options object of the expire family is one of the flags *)
(* "NX", "XX", "GT", "LT" or "none" ({}).                                  *)

ExpireOptions == {"none", "NX", "XX", "GT", "LT"}

\* pttl(key)
pttl(s, t, key) ==
    IF ~XHas(s.store, key) THEN R(s, -2)
    ELSE IF ~EHas(s.expireTimes, key) THEN R(s, -1)
    ELSE LET ttl == s.expireTimes[key] - t
         IN  R(s, IF ttl > 0 THEN ttl ELSE -2)

\* ttl(key): Math.floor of the remaining seconds
ttl(s, t, key) ==
    IF ~XHas(s.store, key) THEN R(s, -2)
    ELSE IF ~EHas(s.expireTimes, key) THEN R(s, -1)
    ELSE LET secs == (s.expireTimes[key] - t) \div MsPerSec
         IN  R(s, IF secs > 0 THEN secs ELSE -2)

\* expire with the comparisons of GT and LT the other way round
expireFlipped(s, t, key, seconds, o) ==
    IF ~XHas(s.store, key) THEN R(s, 0)
    ELSE LET has == EHas(s.expireTimes, key)
             expireTime == IF has THEN s.expireTimes[key] ELSE 0
         IN  IF o = "NX" /\ has THEN R(s, 0)
             ELSE IF o = "XX" /\ ~has THEN R(s, 0)
             ELSE IF o = "GT" /\ (~has \/ expireTime >= t + seconds * MsPerSec) THEN R(s, 0)
             ELSE IF o = "LT" /\ (~has \/ expireTime <= t + seconds * MsPerSec) THEN R(s, 0)
             ELSE R([s EXCEPT !.expireTimes = ESet(s.expireTimes, key, t + seconds * MsPerSec)], 1)

\* expire(key, seconds, options)
expire(s, t, key, seconds, o) ==
    IF ~XHas(s.store, key) THEN R(s, 0)
    ELSE LET has == EHas(s.expireTimes, key)
             expireTime == IF has THEN s.expireTimes[key] ELSE 0
         IN  IF o = "NX" /\ has THEN R(s, 0)
             ELSE IF o = "XX" /\ ~has THEN R(s, 0)
             ELSE IF o = "GT" /\ (~has \/ expireTime <= t + seconds * MsPerSec) THEN R(s, 0)
             ELSE IF o = "LT" /\ (~has \/ expireTime >= t + seconds * MsPerSec) THEN R(s, 0)
             ELSE R([s EXCEPT !.expireTimes = ESet(s.expireTimes, key, t + seconds * MsPerSec)], 1)

\* pexpire(key, ttlMillis, options)
pexpire(s, t, key, ttlMillis, o) ==
    IF (o = "NX" /\ XHas(s.store, key)) \/ (o = "XX" /\ ~XHas(s.store, key)) THEN R(s, 0)
    ELSE LET existingTTL == pttl(s, t, key).ret
         IN  IF \/ o = "GT" /\ existingTTL >= ttlMillis
                \/ o = "LT" /\ existingTTL <= ttlMillis
             THEN R(s, 0)
             ELSE R([s EXCEPT !.expireTimes = ESet(s.expireTimes, key, t + ttlMillis)], 1)

\* expireat(key, timestampSeconds, options)
expireat(s, t, key, timestampSeconds, o) ==
    IF ~XHas(s.store, key) THEN R(s, 0)
    ELSE LET ttlMillis == timestampSeconds * MsPerSec - t
             existingTtl == pttl(s, t, key).ret
         IN  IF ttlMillis <= 0
             THEN R([s EXCEPT !.store = XDelete(s.store, key),
                              !.expireTimes = EDelete(s.expireTimes, key)], 0)
             ELSE IF o = "XX" /\ existingTtl = -1 THEN R(s, 0)
             ELSE IF o = "NX" /\ existingTtl # -1 THEN R(s, 0)
             ELSE IF o = "GT" /\ existingTtl # -1 /\ ttlMillis <= existingTtl THEN R(s, 0)
             ELSE IF o = "LT" /\ existingTtl # -1 /\ ttlMillis >= existingTtl THEN R(s, 0)
             ELSE pexpire(s, t, key, ttlMillis, "none")

\* pexpireat(key, timestampMillis): the method takes no options argument
pexpireat(s, t, key, timestampMillis) ==
    LET ttlMillis == timestampMillis - t
    IN  IF ttlMillis <= 0
        THEN R([s EXCEPT !.store = XDelete(s.store, key),
                         !.expireTimes = EDelete(s.expireTimes, key)], 0)
        ELSE pexpire(s, t, key, ttlMillis, "none")

\* persist(key)
persist(s, t, key) ==
    IF ~XHas(s.store, key) \/ ~EHas(s.expireTimes, key) THEN R(s, 0)
    ELSE R(persistExpirationToIndexedDB([s EXCEPT !.expireTimes = EDelete(s.expireTimes, key)],
                                        key, <<>>), 1)

----------------------------------------------------------------------------
(* The cleanup loop *)

\* the body of the interval callback's else branch: every key of the deadline
\* table is checked, in any order (the checks of different keys are independent)
RECURSIVE sweepKeys(_, _, _)
sweepKeys(s, t, pending) ==
    IF pending = {} THEN s
    ELSE LET key == CHOOSE k \in pending : TRUE
         IN  sweepKeys(checkAndRemoveExpiredKey(s, t, key).s, t, pending \ {key})

\* one firing of an interval callback
cleanupTick(s, t) ==
    IF XSize(s.store) = 0 /\ s.cleanupLoop # "none"
    THEN [s EXCEPT !.cleanupLoop = "cleared"]
    ELSE sweepKeys(s, t, DOMAIN s.expireTimes)


----------------------------------------------------------------------------
(* Starting an instance with a durable mirror: _setupIndexedDB runs in    *)
(* three turns of the event loop, and commands run between them.          *)

\* the keys of the model in ascending order, the order of getAll()
KeyPathOrder == <<"k1", "k2">>

\* objectStore.getAll(): the records of an object store, by key
getAll(table) ==
    LET ks == SelectSeq(KeyPathOrder, LAMBDA k : k \in DOMAIN table)
    IN  [i \in 1..Len(ks) |-> [key |-> ks[i], value |-> table[ks[i]]]]

\* `this.db = await this._openDatabase()` resumes and _loadFromIndexedDB
\* runs up to its await: the read-only transaction over both object stores
\* is created, and it reads them as they are now, every later write to the
\* database being served behind it
openDatabase(s) ==
    [s EXCEPT !.idb.db = TRUE,
              !.idb.storeData = getAll(s.idb.store),
              !.idb.expireTimesData = getAll(s.idb.expireTimes)]

\* the catch of _setupIndexedDB
openDatabaseFails(s) ==
    [s EXCEPT !.idb.isIndexedDBAvailable = FALSE, !.idb.isInitialized = TRUE]

\* storeData.forEach(item => this.store.set(item.key, item.value))
RECURSIVE loadStore(_, _, _)
loadStore(m, storeData, i) ==
    IF i > Len(storeData) THEN m
    ELSE loadStore(XSet(m, storeData[i].key, storeData[i].value), storeData, i + 1)

\* expireTimesData.forEach(item => this.expireTimes.set(item.key, item.expireTime))
RECURSIVE loadExpireTimes(_, _, _)
loadExpireTimes(e, expireTimesData, i) ==
    IF i > Len(expireTimesData) THEN e
    ELSE loadExpireTimes(ESet(e, expireTimesData[i].key, expireTimesData[i].value),
                         expireTimesData, i + 1)

\* the loop over this.expireTimes.entries() that ends the load
RECURSIVE loadCleanup(_, _, _)
loadCleanup(s, t, pending) ==
    IF pending = {} THEN s
    ELSE LET key == CHOOSE k \in pending : TRUE
             s1 == IF t > s.expireTimes[key]
                   THEN removeFromIndexedDB([s EXCEPT !.store = XDelete(@, key),
                                                      !.expireTimes = EDelete(@, key)], key)
                   ELSE s
         IN  loadCleanup(s1, t, pending \ {key})

\* _loadFromIndexedDB after its await, and `this.isInitialized = true`
loadFromIndexedDB(s, t) ==
    LET s1 == [s EXCEPT !.store = loadStore(@, s.idb.storeData, 1),
                        !.expireTimes = loadExpireTimes(@, s.idb.expireTimesData, 1)]
        s2 == loadCleanup(s1, t, DOMAIN s1.expireTimes)
    IN  [s2 EXCEPT !.idb.isInitialized = TRUE,
                   !.idb.storeData = <<>>, !.idb.expireTimesData = <<>>]

\* a getAll request fails: the catch of _loadFromIndexedDB, then
\* `this.isInitialized = true`
loadFails(s) ==
    [s EXCEPT !.idb.isInitialized = TRUE,
              !.idb.storeData = <<>>, !.idb.expireTimesData = <<>>]

----------------------------------------------------------------------------
(* Collections: a JavaScript Set is the sequence of its members in        *)
(* insertion order; a sorted set and a hash are each an XMap, the         *)
(* sequence of its entries [k, v] in insertion order (k a member and v    *)
(* its score, or k a field and v its value).                               *)

SetValue(items) == [kind |-> "Set", items |-> items]
XMapValue(items) == [kind |-> "XMap", items |-> items]

\* Where keys of several variants meet, a list is [kind |-> "Array", items |->
\* the sequence of its elements] and a scalar is [kind |-> "string", items |->
\* the string], so that what the code asks of a value (instanceof Set,
\* Array.isArray, whether it has a method) can be asked of all of them.
ArrayValue(items) == [kind |-> "Array", items |-> items]
ScalarValue(str) == [kind |-> "string", items |-> str]

\* Set.prototype.entries() and Array.prototype.entries(): [member, member] and
\* [index, element]
setEntries(items) == [i \in 1..Len(items) |-> [k |-> items[i], v |-> items[i]]]
arrayEntries(items) == [i \in 1..Len(items) |-> [k |-> i - 1, v |-> items[i]]]

\* `this.store.get(key) || new XMap()`, as its entries
entriesOf(s, key) == IF XHas(s.store, key) THEN XGet(s.store, key).items ELSE <<>>

Max(a, b) == IF a > b THEN a ELSE b

\* Array.prototype.slice(begin, end): a negative index counts from the end,
\* and both indices are clamped to 0..length
slice(seq, begin, end) ==
    LET n == Len(seq)
        from == IF begin < 0 THEN Max(n + begin, 0) ELSE Min(begin, n)
        to == IF end < 0 THEN Max(n + end, 0) ELSE Min(end, n)
    IN  SubSeq(seq, from + 1, to)

\* one step of the stable sort: e goes behind every entry it does not precede
insertByScore(sorted, e, descending) ==
    LET before == {i \in 1..Len(sorted) :
                      IF descending THEN e.v > sorted[i].v ELSE e.v < sorted[i].v}
        at == IF before = {} THEN Len(sorted) + 1
              ELSE CHOOSE i \in before : \A j \in before : i <= j
    IN  SubSeq(sorted, 1, at - 1) \o <<e>> \o SubSeq(sorted, at, Len(sorted))

\* Array.from(entries).sort((a, b) => a[1] - b[1]), or b[1] - a[1] when
\* descending: a stable sort by score alone
RECURSIVE sortByScore(_, _)
sortByScore(entries, descending) ==
    IF entries = <<>> THEN <<>>
    ELSE insertByScore(sortByScore(SubSeq(entries, 1, Len(entries) - 1), descending),
                       entries[Len(entries)], descending)

\* .map(([member, score]) => [member, score]) and .map(([member]) => member)
pairs(entries) == [i \in 1..Len(entries) |-> <<entries[i].k, entries[i].v>>]

members(entries) == [i \in 1..Len(entries) |-> entries[i].k]

\* zadd(key, score, member)
zadd(s, t, key, score, member) ==
    LET c == checkAndRemoveExpiredKey(s, t, key)
        s1 == IF XHas(c.s.store, key) THEN c.s ELSE storeSet(c.s, key, XMapValue(<<>>))
        sortedSet == entriesOf(s1, key)
    IN  IF c.ret THEN R(c.s, 0)
        \* sortedSet.set is not a function: a TypeError
        ELSE IF XGet(s1.store, key).kind # "XMap" THEN Throw(s1)
        ELSE R([s1 EXCEPT !.store = XSet(@, key, XMapValue(XSet(sortedSet, member, score)))], 1)

\* zcard(key): the size property of whatever the key holds
zcard(s, t, key) ==
    LET c == checkAndRemoveExpiredKey(s, t, key)
    IN  IF c.ret THEN R(c.s, 0)
        ELSE IF ~XHas(c.s.store, key) THEN R(c.s, 0)
        ELSE IF XGet(c.s.store, key).kind \in {"XMap", "Set"}
             THEN R(c.s, Len(XGet(c.s.store, key).items))
             ELSE R(c.s, Undefined)

\* zincrby(key, increment, member)
zincrby(s, t, key, increment, member) ==
    LET s1 == IF XHas(s.store, key) THEN s ELSE storeSet(s, key, XMapValue(<<>>))
        sortedSet == entriesOf(s1, key)
        currentScore == IF XHas(sortedSet, member) THEN XGet(sortedSet, member) ELSE 0
        newScore == currentScore + increment
    IN  \* sortedSet.get is not a function: a TypeError
        IF XGet(s1.store, key).kind # "XMap" THEN Throw(s1)
        ELSE R([s1 EXCEPT !.store = XSet(@, key, XMapValue(XSet(sortedSet, member, newScore)))],
               newScore)

\* the loop of zrem(key, ...members)
RECURSIVE zremLoop(_, _, _, _)
zremLoop(sortedSet, ms, i, removedCount) ==
    IF i > Len(ms) THEN <<sortedSet, removedCount>>
    ELSE IF XHas(sortedSet, ms[i])
         THEN zremLoop(XDelete(sortedSet, ms[i]), ms, i + 1, removedCount + 1)
         ELSE zremLoop(sortedSet, ms, i + 1, removedCount)

\* zrem that leaves the members in place
zremKeeps(s, t, key, ms) ==
    IF ~XHas(s.store, key) THEN R(s, 0)
    ELSE R(s, zremLoop(entriesOf(s, key), ms, 1, 0)[2])

\* the loop of zrem on a Set: Set.prototype.delete
RECURSIVE zremSetLoop(_, _, _, _)
zremSetLoop(items, ms, i, removedCount) ==
    IF i > Len(ms) THEN <<items, removedCount>>
    ELSE IF \E j \in 1..Len(items) : items[j] = ms[i]
         THEN zremSetLoop(SelectSeq(items, LAMBDA m : m # ms[i]), ms, i + 1, removedCount + 1)
         ELSE zremSetLoop(items, ms, i + 1, removedCount)

\* zrem(key, ...members)
zrem(s, t, key, ms) ==
    IF ~XHas(s.store, key) THEN R(s, 0)
    ELSE IF XGet(s.store, key).kind = "Set"
    THEN LET r == zremSetLoop(entriesOf(s, key), ms, 1, 0)
         IN  R([s EXCEPT !.store = XSet(@, key, SetValue(r[1]))], r[2])
    \* sortedSet.delete is not a function: a TypeError at the first member
    ELSE IF XGet(s.store, key).kind # "XMap" THEN (IF Len(ms) = 0 THEN R(s, 0) ELSE Throw(s))
    ELSE LET r == zremLoop(entriesOf(s, key), ms, 1, 0)
         IN  R([s EXCEPT !.store = XSet(@, key, XMapValue(r[1]))], r[2])

\* zrange(key, start, stop); the entries of a Set or an Array whose second
\* components are not numerals keep their order, the comparator giving NaN
zrange(s, t, key, start, stop) ==
    LET kind == IF XHas(s.store, key) THEN XGet(s.store, key).kind ELSE "XMap"
        sortedMembers == CASE kind = "Set" -> setEntries(entriesOf(s, key))
                           [] kind = "Array" -> arrayEntries(entriesOf(s, key))
                           [] kind = "string" -> <<>>
                           [] OTHER -> sortByScore(entriesOf(s, key), FALSE)
        from == IF start < 0 THEN Len(sortedMembers) + start ELSE start
        to == IF stop < 0 THEN Len(sortedMembers) + stop ELSE stop
    IN  \* sortedSet.entries is not a function: a TypeError
        IF kind = "string" THEN Throw(s)
        ELSE R(s, pairs(slice(sortedMembers, from, to + 1)))

\* zrevrange(key, start, stop)
zrevrange(s, t, key, start, stop) ==
    LET sortedMembers == sortByScore(entriesOf(s, key), TRUE)
        from == IF start < 0 THEN Len(sortedMembers) + start ELSE start
        to == IF stop < 0 THEN Len(sortedMembers) + stop ELSE stop
    IN  R(s, pairs(slice(sortedMembers, from, to + 1)))

\* zrangebyscore(key, min, max) without options
zrangebyscore(s, t, key, min, max) ==
    LET sortedMembers == sortByScore(entriesOf(s, key), FALSE)
    IN  R(s, members(SelectSeq(sortedMembers, LAMBDA e : e.v >= min /\ e.v <= max)))

\* zrevrangebyscore(key, max, min) without options
zrevrangebyscore(s, t, key, max, min) ==
    LET sortedMembers == sortByScore(entriesOf(s, key), TRUE)
    IN  R(s, members(SelectSeq(sortedMembers, LAMBDA e : e.v >= min /\ e.v <= max)))

\* zrank(key, member)
zrank(s, t, key, member) ==
    LET sortedMembers == sortByScore(entriesOf(s, key), FALSE)
    IN  IF XHas(s.store, key) /\ XHas(sortedMembers, member)
        THEN R(s, (CHOOSE i \in 1..Len(sortedMembers) : sortedMembers[i].k = member) - 1)
        ELSE R(s, Undefined)

\* zrevrank(key, member)
zrevrank(s, t, key, member) ==
    LET sortedMembers == sortByScore(entriesOf(s, key), TRUE)
    IN  IF XHas(s.store, key) /\ XHas(sortedMembers, member)
        THEN R(s, (CHOOSE i \in 1..Len(sortedMembers) : sortedMembers[i].k = member) - 1)
        ELSE R(s, Undefined)

\* zunion: for (const [member, score] of sortedSet.entries())
\*             unionMap.set(member, (unionMap.get(member) || 0) + score)
RECURSIVE zunionAdd(_, _, _)
zunionAdd(unionMap, entries, i) ==
    IF i > Len(entries) THEN unionMap
    ELSE zunionAdd(XSet(unionMap, entries[i].k,
                        (IF XHas(unionMap, entries[i].k) THEN XGet(unionMap, entries[i].k)
                         ELSE 0) + entries[i].v),
                   entries, i + 1)

\* zunion: for (const key of keys), a key without a value being passed over
RECURSIVE zunionLoop(_, _, _, _)
zunionLoop(s, keyList, i, unionMap) ==
    IF i > Len(keyList) THEN unionMap
    ELSE zunionLoop(s, keyList, i + 1, zunionAdd(unionMap, entriesOf(s, keyList[i]), 1))

\* zunion(keys): the entries of the union, sorted by score
zunion(s, t, keyList) == R(s, sortByScore(zunionLoop(s, keyList, 1, <<>>), FALSE))

\* zunionstore(destination, keys)
zunionstore(s, t, destination, keyList) ==
    LET resultMap == zunion(s, t, keyList).ret
    IN  R(storeSet(s, destination, XMapValue(resultMap)), Len(resultMap))

\* zinterstore(destination, ...keys): its first statement calls this.ZINTER,
\* a method the class does not have: a TypeError
zinterstore(s, t, destination, keyList) == Throw(s)

\* zdiffstore(destination, ...keys): its first statement calls this.ZDIFF,
\* a method the class does not have: a TypeError
zdiffstore(s, t, destination, keyList) == Throw(s)

\* zscore(key, member)
zscore(s, t, key, member) ==
    IF ~XHas(s.store, key) THEN R(s, Undefined)
    \* sortedSet.get is not a function: a TypeError
    ELSE IF XGet(s.store, key).kind # "XMap" THEN Throw(s)
    ELSE R(s, XGet(entriesOf(s, key), member))

\* rpush(key, ...values)
rpush(s, t, key, values) ==
    LET s1 == IF XHas(s.store, key) THEN s ELSE storeSet(s, key, ArrayValue(<<>>))
        list == XGet(s1.store, key)
    IN  IF list.kind # "Array" THEN Throw(s)
        ELSE R([s1 EXCEPT !.store = XSet(@, key, ArrayValue(list.items \o values))],
               Len(list.items) + Len(values))

\* String.prototype.includes: sub occurs somewhere in cs
includes(cs, sub) ==
    \E i \in 1..(Len(cs) + 1) :
        i + Len(sub) - 1 <= Len(cs) /\ SubSeq(cs, i, i + Len(sub) - 1) = sub

\* new RegExp(match.replace('*', '.*')).test(member), for the pattern "*" and
\* for patterns of plain characters: an unanchored search
regexSearch(member, match) ==
    IF match = "*" THEN TRUE ELSE includes(Chars[member], Chars[match])

\* the loop of sadd(key, ...members)
RECURSIVE saddLoop(_, _, _, _)
saddLoop(theSet, ms, i, addedCount) ==
    IF i > Len(ms) THEN <<theSet, addedCount>>
    ELSE IF \E j \in 1..Len(theSet) : theSet[j] = ms[i]
         THEN saddLoop(theSet, ms, i + 1, addedCount)
         ELSE saddLoop(Append(theSet, ms[i]), ms, i + 1, addedCount + 1)

\* sadd(key, ...members)
sadd(s, t, key, ms) ==
    LET s1 == IF XHas(s.store, key) THEN s ELSE storeSet(s, key, SetValue(<<>>))
        theSet == XGet(s1.store, key)
    IN  IF theSet.kind # "Set" THEN Throw(s1)
        ELSE LET r == saddLoop(theSet.items, ms, 1, 0)
             IN  R([s1 EXCEPT !.store = XSet(@, key, SetValue(r[1]))], r[2])

\* the loop of sscan: <<newCursor, result>>
RECURSIVE sscanLoop(_, _, _, _, _, _)
sscanLoop(ms, match, count, i, newCursor, result) ==
    IF i < Len(ms) /\ Len(result) < count
    THEN sscanLoop(ms, match, count, i + 1, i + 1,
                   IF regexSearch(ms[i + 1], match) THEN Append(result, ms[i + 1]) ELSE result)
    ELSE <<newCursor, result>>

\* sscan(key, cursor, {match, count})
sscan(s, t, key, cursor, match, count) ==
    IF ~XHas(s.store, key) THEN R(s, <<0, <<>>>>)
    ELSE LET theSet == XGet(s.store, key)
         IN  IF theSet.kind # "Set" THEN Throw(s)
             ELSE LET r == sscanLoop(theSet.items, match, count, cursor, cursor, <<>>)
                  IN  R(s, <<IF r[1] >= Len(theSet.items) THEN 0 ELSE r[1], r[2]>>)

\* the loop of zscan: <<index, result>>; a match of "" is no match option
RECURSIVE zscanLoop(_, _, _, _, _)
zscanLoop(sortedMembers, match, count, index, result) ==
    IF count > 0 /\ index < Len(sortedMembers)
    THEN IF match = "" \/ regexSearch(sortedMembers[index + 1].k, match)
         THEN zscanLoop(sortedMembers, match, count - 1, index + 1,
                        Append(result, <<sortedMembers[index + 1].k, sortedMembers[index + 1].v>>))
         ELSE zscanLoop(sortedMembers, match, count, index + 1, result)
    ELSE <<index, result>>

\* zscan(key, cursor, {match, count})
zscan(s, t, key, cursor, match, count) ==
    LET sortedMembers == sortByScore(entriesOf(s, key), FALSE)
        r == zscanLoop(sortedMembers, match, count, cursor, <<>>)
    IN  R(s, <<IF r[1] >= Len(sortedMembers) THEN 0 ELSE r[1], r[2]>>)

\* hset(key, field, value)
hset(s, t, key, field, value) ==
    LET s1 == IF XHas(s.store, key) THEN s ELSE storeSet(s, key, XMapValue(<<>>))
        hashMap == entriesOf(s1, key)
    IN  \* hashMap.has or hashMap.set is not a function: a TypeError
        IF XGet(s1.store, key).kind # "XMap" THEN Throw(s1)
        ELSE R([s1 EXCEPT !.store = XSet(@, key, XMapValue(XSet(hashMap, field, value)))],
               IF XHas(hashMap, field) THEN 0 ELSE 1)

\* hscan(key, cursor, match, count)
hscan(s, t, key, cursor, match, count) ==
    LET hashMap == entriesOf(s, key)
        filteredFields == SelectSeq(hashMap, LAMBDA e : includes(Chars[e.k], Chars[match]))
        endIndex == Min(cursor + count, Len(filteredFields))
        nextCursor == IF endIndex = Len(filteredFields) THEN 0 ELSE endIndex
    IN  R(s, <<nextCursor, pairs(slice(filteredFields, cursor, endIndex))>>)

\* one call of sscan, zscan or hscan with its default match pattern
scanDefault(cmd, s, t, key, cursor, count) ==
    CASE cmd = "sscan" -> sscan(s, t, key, cursor, "*", count)
      [] cmd = "zscan" -> zscan(s, t, key, cursor, "", count)
      [] cmd = "hscan" -> hscan(s, t, key, cursor, "*", count)

----------------------------------------------------------------------------
(* Inputs of the commands *)

NoOptions == [NX |-> FALSE, XX |-> FALSE, GET |-> FALSE, EX |-> NotGiven,
              PX |-> NotGiven, EXAT |-> NotGiven, PXAT |-> NotGiven, KEEPTTL |-> FALSE]

\* the options objects passed to set, by name
SetOptions ==
    [none     |-> NoOptions,
     NX       |-> [NoOptions EXCEPT !.NX = TRUE],
     XX       |-> [NoOptions EXCEPT !.XX = TRUE],
     GET      |-> [NoOptions EXCEPT !.GET = TRUE],
     KEEPTTL  |-> [NoOptions EXCEPT !.KEEPTTL = TRUE],
     EX       |-> [NoOptions EXCEPT !.EX = Num(1)],
     EXpast   |-> [NoOptions EXCEPT !.EX = Num(-1)],
     PX       |-> [NoOptions EXCEPT !.PX = Num(500)],
     PXpast   |-> [NoOptions EXCEPT !.PX = Num(-500)],
     EXAT     |-> [NoOptions EXCEPT !.EXAT = Num(3)],
     EXATpast |-> [NoOptions EXCEPT !.EXAT = Num(1)],
     EXATfrac |-> [NoOptions EXCEPT !.EXAT = Frac(0)],
     PXAT     |-> [NoOptions EXCEPT !.PXAT = Num(3500)],
     PXATpast |-> [NoOptions EXCEPT !.PXAT = Num(1500)]]

\* the options of set that give a deadline earlier than every Clock(i)
PastOptionNames == {"EXpast", "PXpast", "EXATpast", "EXATfrac", "PXATpast"}

\* argument lists of del, exists, mget
KeyLists == UNION {[1..n -> Keys] : n \in 1..MaxArgs}

----------------------------------------------------------------------------
(* Moving keys, writing several keys, popping from lists, flushing *)

\* JavaScript's null as the result of a command that otherwise returns an
\* array: the empty tuple, which no array result of these commands is
Null == <<>>

\* rename(key, newKey)
rename(s, t, key, newKey) ==
    IF ~XHas(s.store, key) THEN Throw(s)
    ELSE IF key = newKey THEN R(s, True)
    ELSE LET value == XGet(s.store, key)
             s1 == storeSet(s, newKey, value)
             s2 == [s1 EXCEPT !.store = XDelete(@, key)]
         IN  IF EHas(s.expireTimes, key)
             THEN R([s2 EXCEPT !.expireTimes =
                                  EDelete(ESet(@, newKey, s.expireTimes[key]), key)], True)
             ELSE R(s2, True)

\* renamenx(oldKey, newKey)
renamenx(s, t, oldKey, newKey) ==
    IF ~XHas(s.store, oldKey) \/ XHas(s.store, newKey) THEN R(s, 0)
    ELSE LET value == XGet(s.store, oldKey)
             s1 == storeSet([s EXCEPT !.store = XDelete(@, oldKey)], newKey, value)
         IN  IF EHas(s.expireTimes, oldKey)
             THEN R([s1 EXCEPT !.expireTimes =
                                  ESet(EDelete(@, oldKey), newKey, s.expireTimes[oldKey])], 1)
             ELSE R(s1, 1)

\* the loop of mset and msetnx: this.set(keyValuePairs[i], keyValuePairs[i + 1])
RECURSIVE msetLoop(_, _, _, _)
msetLoop(s, t, keyValuePairs, i) ==
    IF i >= Len(keyValuePairs) THEN s
    ELSE msetLoop(set(s, t, keyValuePairs[i + 1], keyValuePairs[i + 2], NoOptions).s,
                  t, keyValuePairs, i + 2)

\* mset(...keyValuePairs)
mset(s, t, keyValuePairs) ==
    IF Len(keyValuePairs) % 2 # 0 THEN Throw(s)
    ELSE R(msetLoop(s, t, keyValuePairs, 0), True)

\* msetnx(...keyValuePairs)
msetnx(s, t, keyValuePairs) ==
    IF Len(keyValuePairs) % 2 # 0 THEN Throw(s)
    ELSE IF \E i \in 1..Len(keyValuePairs) : i % 2 = 1 /\ XHas(s.store, keyValuePairs[i])
         THEN R(s, 0)
    ELSE R(msetLoop(s, t, keyValuePairs, 0), 1)

\* the loop of hmset: a field behind which no value follows gets undefined
RECURSIVE hmsetLoop(_, _, _)
hmsetLoop(hashMap, fieldValuePairs, i) ==
    IF i >= Len(fieldValuePairs) THEN hashMap
    ELSE hmsetLoop(XSet(hashMap, fieldValuePairs[i + 1],
                        IF i + 2 <= Len(fieldValuePairs) THEN fieldValuePairs[i + 2]
                        ELSE Undefined),
                   fieldValuePairs, i + 2)

\* hmset(key, ...fieldValuePairs)
hmset(s, t, key, fieldValuePairs) ==
    \* hashMap.set is not a function: a TypeError
    IF XHas(s.store, key) /\ XGet(s.store, key).kind # "XMap" /\ Len(fieldValuePairs) > 0
    THEN Throw(s)
    ELSE IF XHas(s.store, key) /\ XGet(s.store, key).kind # "XMap"
    THEN R(storeSet(s, key, XGet(s.store, key)), True)
    ELSE R(storeSet(s, key, XMapValue(hmsetLoop(entriesOf(s, key), fieldValuePairs, 0))), True)

\* flushall()
flushall(s, t) ==
    R(clearIndexedDB([s EXCEPT !.store = <<>>, !.expireTimes = EmptyTable]), True)

\* the keys of the argument list that hold a non-empty list
poppable(s, keyList) ==
    {i \in 1..Len(keyList) :
        /\ XHas(s.store, keyList[i])
        /\ XGet(s.store, keyList[i]).kind = "Array"
        /\ Len(XGet(s.store, keyList[i]).items) > 0}

\* brpop(timeout, ...keys).  The loop runs while Date.now() < endTime and no
\* other code runs meanwhile: it pops from the first key that holds a
\* non-empty list, or spins until the clock reaches endTime.  The result has
\* a fourth field t, the clock when brpop returns.
brpop(s, t, timeout, keyList) ==
    LET endTime == t + timeout * MsPerSec
        key == keyList[first(poppable(s, keyList))]
        list == XGet(s.store, key).items
        rest == SubSeq(list, 1, Len(list) - 1)
    IN  IF ~(t < endTime) THEN [s |-> s, ret |-> Null, err |-> FALSE, t |-> t]
        ELSE IF poppable(s, keyList) = {}
             THEN [s |-> s, ret |-> Null, err |-> FALSE, t |-> endTime]
        ELSE [s |-> [s EXCEPT !.store = IF rest = <<>> THEN XDelete(@, key)
                                        ELSE XSet(@, key, ArrayValue(rest))],
              ret |-> <<key, list[Len(list)]>>, err |-> FALSE, t |-> t]

----------------------------------------------------------------------------
(* The state machine.  `last` is the command that ran last: its name, its *)
(* key arguments, the name of its options, what it returned and whether   *)
(* it threw.                                                               *)

\* no cursor traversal is under way
NoWalk == [on |-> FALSE, cmd |-> "none", key |-> "", match |-> "", count |-> 0,
           cursor |-> 0, pages |-> 0, seen |-> <<>>]

\* an XMap on its own, next to a single unbounded map `ref` that is given the
\* same calls: the last call, what the XMap returned and what the map returned
\* `order` is the order in which that map has its keys, the order of insertion
NewXMap == [pool |-> poolClear, ref |-> EmptyTable, order |-> <<>>, op |-> "new",
            ret |-> Undefined, refRet |-> Undefined]

Call(op, args, opt, r) ==
    /\ xmap' = xmap
    /\ walk' = NoWalk
    /\ store' = r.s.store
    /\ expireTimes' = r.s.expireTimes
    /\ cleanupLoop' = r.s.cleanupLoop
    /\ leaked' = r.s.leaked
    /\ idb' = r.s.idb
    /\ last' = [op |-> op, keys |-> args, opt |-> opt, ret |-> r.ret, err |-> r.err]
    /\ now' = now

Init ==
    /\ store = <<>>
    /\ expireTimes = EmptyTable
    /\ cleanupLoop = "none"
    /\ leaked = 0
    /\ now = Clock(0)
    /\ walk = NoWalk
    /\ xmap = NewXMap
    /\ idb = NoIndexedDB
    /\ last = NoCall

Set(key, value, o) ==
    /\ o \in DOMAIN SetOptions
    /\ Call("set", <<key>>, o, set(Cur, now, key, value, SetOptions[o]))

Get(key) ==
    /\ key \in STRING
    /\ Call("get", <<key>>, "none", get(Cur, now, key))

Del(args) ==
    /\ Len(args) >= 1
    /\ Call("del", args, "none", del(Cur, now, args))

Exists(args) ==
    /\ args \in KeyLists
    /\ Call("exists", args, "none", exists(Cur, now, args))

MGet(args) ==
    /\ args \in KeyLists
    /\ Call("mget", args, "none", mget(Cur, now, args))

IncrBy(key, increment) ==
    /\ LET value == XGet(store, key)
       IN  IsNumeral(value) => Number(value) + increment <= MaxCounter
    /\ Call("incrby", <<key>>, "none", incrby(Cur, now, key, increment))

Type(key) ==
    /\ key \in Keys
    /\ Call("type", <<key>>, "none", type(Cur, now, key))

KeysCmd(pattern) ==
    /\ pattern \in STRING
    /\ Call("keys", <<>>, pattern, keys(Cur, now, pattern))

Scan(cursor, match, count) ==
    /\ cursor >= 0 /\ count >= 1
    /\ Call("scan", <<>>, match, scan(Cur, now, cursor, match, count))

Expire(key, seconds, o) ==
    /\ o \in ExpireOptions
    /\ Call("expire", <<key>>, o, expire(Cur, now, key, seconds, o))

PExpire(key, ttlMillis, o) ==
    /\ o \in ExpireOptions
    /\ Call("pexpire", <<key>>, o, pexpire(Cur, now, key, ttlMillis, o))

ExpireAt(key, timestampSeconds, o) ==
    /\ o \in ExpireOptions
    /\ Call("expireat", <<key>>, o, expireat(Cur, now, key, timestampSeconds, o))

\* pexpireat(key, timestampMillis, options): the third argument is not read
PExpireAt(key, timestampMillis, o) ==
    /\ o \in ExpireOptions
    /\ Call("pexpireat", <<key>>, o, pexpireat(Cur, now, key, timestampMillis))

Pttl(key) ==
    /\ key \in Keys
    /\ Call("pttl", <<key>>, "none", pttl(Cur, now, key))

Ttl(key) ==
    /\ key \in Keys
    /\ Call("ttl", <<key>>, "none", ttl(Cur, now, key))

Persist(key) ==
    /\ key \in Keys
    /\ Call("persist", <<key>>, "none", persist(Cur, now, key))

\* Sorted-set commands: `keys` holds the key and the members passed, `opt` the
\* numbers passed.
ZAdd(key, score, member) ==
    /\ key \in STRING
    /\ Call("zadd", <<key, member>>, <<score>>, zadd(Cur, now, key, score, member))

ZRem(key, ms) ==
    /\ Len(ms) >= 1
    /\ Call("zrem", <<key>> \o ms, <<>>, zrem(Cur, now, key, ms))

ZRange(key, start, stop) ==
    /\ key \in STRING
    /\ Call("zrange", <<key>>, <<start, stop>>, zrange(Cur, now, key, start, stop))

ZRevRange(key, start, stop) ==
    /\ key \in STRING
    /\ Call("zrevrange", <<key>>, <<start, stop>>, zrevrange(Cur, now, key, start, stop))

ZRangeByScore(key, min, max) ==
    /\ key \in STRING
    /\ Call("zrangebyscore", <<key>>, <<min, max>>, zrangebyscore(Cur, now, key, min, max))

ZRevRangeByScore(key, max, min) ==
    /\ key \in STRING
    /\ Call("zrevrangebyscore", <<key>>, <<max, min>>,
            zrevrangebyscore(Cur, now, key, max, min))

ZRank(key, member) ==
    /\ key \in STRING
    /\ Call("zrank", <<key, member>>, <<>>, zrank(Cur, now, key, member))

ZRevRank(key, member) ==
    /\ key \in STRING
    /\ Call("zrevrank", <<key, member>>, <<>>, zrevrank(Cur, now, key, member))

ZUnionStore(destination, keyList) ==
    /\ destination \in STRING
    /\ Call("zunionstore", <<destination>> \o keyList, <<>>,
            zunionstore(Cur, now, destination, keyList))

ZInterStore(destination, keyList) ==
    /\ destination \in STRING
    /\ Call("zinterstore", <<destination>> \o keyList, <<>>,
            zinterstore(Cur, now, destination, keyList))

ZDiffStore(destination, keyList) ==
    /\ destination \in STRING
    /\ Call("zdiffstore", <<destination>> \o keyList, <<>>,
            zdiffstore(Cur, now, destination, keyList))

ZScore(key, member) ==
    /\ key \in STRING
    /\ Call("zscore", <<key, member>>, <<>>, zscore(Cur, now, key, member))

ZCard(key) ==
    /\ key \in STRING
    /\ Call("zcard", <<key>>, <<>>, zcard(Cur, now, key))

ZIncrBy(key, increment, member) ==
    /\ LET r == zincrby(Cur, now, key, increment, member) IN IF r.err THEN TRUE ELSE r.ret <= MaxScore
    /\ Call("zincrby", <<key, member>>, <<increment>>, zincrby(Cur, now, key, increment, member))

RPush(key, values) ==
    /\ LET r == rpush(Cur, now, key, values) IN IF r.err THEN TRUE ELSE r.ret <= MaxList
    /\ Call("rpush", <<key>> \o values, <<>>, rpush(Cur, now, key, values))

SAdd(key, ms) ==
    /\ Len(ms) >= 1
    /\ Call("sadd", <<key>> \o ms, <<>>, sadd(Cur, now, key, ms))

HSet(key, field, value) ==
    /\ key \in STRING
    /\ Call("hset", <<key, field>>, <<value>>, hset(Cur, now, key, field, value))

\* a client starts a traversal of a collection: sscan, zscan or hscan from
\* cursor 0 with the default match pattern
CollScanStart(cmd, key, count) ==
    /\ count >= 1
    /\ LET r == scanDefault(cmd, Cur, now, key, 0, count)
       IN  /\ walk' = [on |-> TRUE, cmd |-> cmd, key |-> key, match |-> "",
                       count |-> count, cursor |-> r.ret[1], pages |-> 1, seen |-> r.ret[2]]
           /\ last' = [op |-> cmd, keys |-> <<key>>, opt |-> <<0, count>>, ret |-> r.ret,
                       err |-> FALSE]
    /\ UNCHANGED <<store, expireTimes, cleanupLoop, leaked, now, xmap, idb>>

\* the client passes the cursor it was given to the next call
CollScanNext ==
    /\ walk.on /\ walk.cmd \in {"sscan", "zscan", "hscan"} /\ walk.cursor # 0
    /\ LET r == scanDefault(walk.cmd, Cur, now, walk.key, walk.cursor, walk.count)
       IN  /\ walk' = [walk EXCEPT !.cursor = r.ret[1], !.pages = @ + 1,
                                   !.seen = @ \o r.ret[2]]
           /\ last' = [op |-> walk.cmd, keys |-> <<walk.key>>,
                       opt |-> <<walk.cursor, walk.count>>, ret |-> r.ret, err |-> FALSE]
    /\ UNCHANGED <<store, expireTimes, cleanupLoop, leaked, now, xmap, idb>>

\* a client starts a traversal: scan(0, match, count)
ScanStart(match, count) ==
    /\ count >= 1
    /\ LET r == scan(Cur, now, 0, match, count)
       IN  /\ walk' = [on |-> TRUE, cmd |-> "scan", key |-> "", match |-> match,
                       count |-> count, cursor |-> r.ret[1], pages |-> 1, seen |-> r.ret[2]]
           /\ last' = [op |-> "scan", keys |-> <<>>, opt |-> match, ret |-> r.ret, err |-> FALSE]
    /\ UNCHANGED <<store, expireTimes, cleanupLoop, leaked, now, xmap, idb>>

\* the client passes the cursor it was given to the next scan
ScanNext ==
    /\ walk.on /\ walk.cmd = "scan" /\ walk.cursor # 0
    /\ LET r == scan(Cur, now, walk.cursor, walk.match, walk.count)
       IN  /\ walk' = [walk EXCEPT !.cursor = r.ret[1], !.pages = @ + 1,
                                   !.seen = @ \o r.ret[2]]
           /\ last' = [op |-> "scan", keys |-> <<>>, opt |-> walk.match, ret |-> r.ret,
                       err |-> FALSE]
    /\ UNCHANGED <<store, expireTimes, cleanupLoop, leaked, now, xmap, idb>>

\* Calls on the XMap on its own.
XMapSet(key, value) ==
    /\ key \in STRING
    /\ Len(poolSet(xmap.pool, key, value)) <= MaxShards
    /\ xmap' = [pool |-> poolSet(xmap.pool, key, value), ref |-> ESet(xmap.ref, key, value),
                order |-> IF EHas(xmap.ref, key) THEN xmap.order ELSE Append(xmap.order, key),
                op |-> "set", ret |-> Undefined, refRet |-> Undefined]
    /\ UNCHANGED <<store, expireTimes, cleanupLoop, leaked, now, last, walk, idb>>

XMapGet(key) ==
    /\ key \in STRING
    /\ xmap' = [xmap EXCEPT !.op = "get", !.ret = poolGet(xmap.pool, key),
                            !.refRet = IF EHas(xmap.ref, key) THEN xmap.ref[key] ELSE Undefined]
    /\ UNCHANGED <<store, expireTimes, cleanupLoop, leaked, now, last, walk, idb>>

XMapHas(key) ==
    /\ key \in STRING
    /\ xmap' = [xmap EXCEPT !.op = "has", !.ret = poolHas(xmap.pool, key),
                            !.refRet = EHas(xmap.ref, key)]
    /\ UNCHANGED <<store, expireTimes, cleanupLoop, leaked, now, last, walk, idb>>

XMapDelete(key) ==
    /\ key \in STRING
    /\ xmap' = [pool |-> poolDelete(xmap.pool, key)[1], ref |-> EDelete(xmap.ref, key),
                order |-> SelectSeq(xmap.order, LAMBDA x : x # key),
                op |-> "delete", ret |-> poolDelete(xmap.pool, key)[2],
                refRet |-> EHas(xmap.ref, key)]
    /\ UNCHANGED <<store, expireTimes, cleanupLoop, leaked, now, last, walk, idb>>

XMapSizeCmd ==
    /\ xmap.op # "size"
    /\ xmap' = [xmap EXCEPT !.op = "size", !.ret = poolSize(xmap.pool),
                            !.refRet = Cardinality(DOMAIN xmap.ref)]
    /\ UNCHANGED <<store, expireTimes, cleanupLoop, leaked, now, last, walk, idb>>

XMapClear ==
    /\ xmap.op # "new"
    /\ xmap' = [NewXMap EXCEPT !.op = "clear"]
    /\ UNCHANGED <<store, expireTimes, cleanupLoop, leaked, now, last, walk, idb>>

\* Iterating the XMap; the single map yields its entries in insertion order.
XMapEntries ==
    /\ xmap.op # "entries"
    /\ xmap' = [xmap EXCEPT !.op = "entries", !.ret = poolEntries(xmap.pool),
                            !.refRet = [i \in 1..Len(xmap.order) |->
                                          [k |-> xmap.order[i], v |-> xmap.ref[xmap.order[i]]]]]
    /\ UNCHANGED <<store, expireTimes, cleanupLoop, leaked, now, last, walk, idb>>

XMapKeysCmd ==
    /\ xmap.op # "keys"
    /\ xmap' = [xmap EXCEPT !.op = "keys", !.ret = poolKeys(xmap.pool),
                            !.refRet = xmap.order]
    /\ UNCHANGED <<store, expireTimes, cleanupLoop, leaked, now, last, walk, idb>>

XMapValuesCmd ==
    /\ xmap.op # "values"
    /\ xmap' = [xmap EXCEPT !.op = "values", !.ret = poolValues(xmap.pool),
                            !.refRet = [i \in 1..Len(xmap.order) |-> xmap.ref[xmap.order[i]]]]
    /\ UNCHANGED <<store, expireTimes, cleanupLoop, leaked, now, last, walk, idb>>

Rename(key, newKey) ==
    /\ key \in STRING
    /\ Call("rename", <<key, newKey>>, "none", rename(Cur, now, key, newKey))

RenameNX(oldKey, newKey) ==
    /\ oldKey \in STRING
    /\ Call("renamenx", <<oldKey, newKey>>, "none", renamenx(Cur, now, oldKey, newKey))

MSet(keyValuePairs) ==
    /\ Len(keyValuePairs) >= 0
    /\ Call("mset", keyValuePairs, "none", mset(Cur, now, keyValuePairs))

MSetNX(keyValuePairs) ==
    /\ Len(keyValuePairs) >= 0
    /\ Call("msetnx", keyValuePairs, "none", msetnx(Cur, now, keyValuePairs))

HMSet(key, fieldValuePairs) ==
    /\ key \in STRING
    /\ Call("hmset", <<key>> \o fieldValuePairs, "none", hmset(Cur, now, key, fieldValuePairs))

FlushAll ==
    /\ last.op # "flushall"
    /\ Call("flushall", <<>>, "none", flushall(Cur, now))

\* brpop returns when the clock shows r.t
BRPop(timeout, args) ==
    LET r == brpop(Cur, now, timeout, args)
    IN  /\ r.t <= Clock(MaxTicks)
        /\ store' = r.s.store
        /\ expireTimes' = r.s.expireTimes
        /\ cleanupLoop' = r.s.cleanupLoop
        /\ leaked' = r.s.leaked
        /\ idb' = r.s.idb
        /\ now' = r.t
        /\ last' = [op |-> "brpop", keys |-> args, opt |-> <<timeout>>, ret |-> r.ret,
                    err |-> r.err]
        /\ walk' = NoWalk
        /\ xmap' = xmap

\* a scheduled interval timer fires
CleanupTick ==
    /\ cleanupLoop = "active" \/ leaked > 0
    /\ Call("sweep", <<>>, "none", R(cleanupTick(Cur, now), Undefined))

\* The turns of _setupIndexedDB.
OpenDatabase ==
    /\ idb.isIndexedDBAvailable /\ ~idb.db /\ ~idb.isInitialized
    /\ Call("openDatabase", <<>>, "none", R(openDatabase(Cur), Undefined))

OpenDatabaseFails ==
    /\ idb.isIndexedDBAvailable /\ ~idb.db /\ ~idb.isInitialized
    /\ Call("openDatabaseFails", <<>>, "none", R(openDatabaseFails(Cur), Undefined))

LoadFromIndexedDB ==
    /\ idb.db /\ ~idb.isInitialized
    /\ Call("loadFromIndexedDB", <<>>, "none", R(loadFromIndexedDB(Cur, now), Undefined))

LoadFails ==
    /\ idb.db /\ ~idb.isInitialized
    /\ Call("loadFails", <<>>, "none", R(loadFails(Cur), Undefined))

\* Date.now() advances
Tick ==
    /\ \E i \in 0..(MaxTicks - 1) : now = Clock(i) /\ now' = Clock(i + 1)
    /\ last' = [op |-> "tick", keys |-> <<>>, opt |-> "none", ret |-> Undefined, err |-> FALSE]
    /\ walk' = NoWalk
    /\ UNCHANGED <<store, expireTimes, cleanupLoop, leaked, xmap, idb>>

\* The whole instance: every command on two keys.
Next ==
    \/ \E key \in Keys, value \in Values,
          o \in {"none", "KEEPTTL", "PX", "PXpast", "EXATfrac"} : Set(key, value, o)
    \/ \E key \in Keys : Get(key)
    \/ \E args \in KeyLists : Del(args)
    \/ \E args \in KeyLists : Exists(args)
    \/ \E args \in KeyLists : MGet(args)
    \/ \E key \in Keys : IncrBy(key, 1)
    \/ \E key \in Keys : Type(key)
    \/ \E pattern \in {"*", ""} : KeysCmd(pattern)
    \/ \E cursor \in {0, 1}, count \in {1, 2} : Scan(cursor, "*", count)
    \/ \E key \in Keys, seconds \in {-1, 1} : Expire(key, seconds, "none")
    \/ \E key \in Keys : PExpire(key, 1000, "none")
    \/ \E key \in Keys : ExpireAt(key, 3, "none")
    \/ \E key \in Keys : PExpireAt(key, 2500, "none")
    \/ \E key \in Keys : Pttl(key)
    \/ \E key \in Keys : Ttl(key)
    \/ \E key \in Keys : Persist(key)
    \/ CleanupTick
    \/ Tick

Spec == Init /\ [][Next]_vars

\* The deadline commands in depth: every option flag, deadlines behind, at and
\* ahead of the clock and of the stored deadline.
ExpireSeconds == {-1, 1, 2}
PExpireMillis == {-500, 1000, 1500}
ExpireAtSeconds == {1, 3, 4}
PExpireAtMillis == {1500, 3000, 3500}

NextTTL ==
    \/ \E key \in Keys, o \in {"none", "PX"} : Set(key, "0", o)
    \/ \E key \in Keys : Get(key)
    \/ \E key \in Keys, seconds \in ExpireSeconds, o \in ExpireOptions : Expire(key, seconds, o)
    \/ \E key \in Keys, ttlMillis \in PExpireMillis, o \in ExpireOptions :
          PExpire(key, ttlMillis, o)
    \/ \E key \in Keys, ts \in ExpireAtSeconds, o \in ExpireOptions : ExpireAt(key, ts, o)
    \/ \E key \in Keys, ts \in PExpireAtMillis, o \in ExpireOptions : PExpireAt(key, ts, o)
    \/ \E key \in Keys : Pttl(key)
    \/ Tick

SpecTTL == Init /\ [][NextTTL]_vars

\* Listing keys: keys that differ in case, that share a prefix and that contain
\* one another, patterns with and without wildcards, and cursor traversals.
ListKeys == {"a", "Ab", "ba"}
Patterns == {"", "*", "?", "a", "A", "ab", "a*", "B*", "*a", "a?"}
\* largest page size of a scan
MaxCount == 3

NextKeys ==
    \/ \E key \in ListKeys, o \in {"none", "PX"} : Set(key, "0", o)
    \/ \E key \in ListKeys : Get(key)
    \/ \E key \in ListKeys : Del(<<key>>)
    \/ \E pattern \in {"", "a", "a*"} : KeysCmd(pattern)
    \/ \E count \in {MaxCount, MaxCount + 1} : Scan(Cardinality(ListKeys), "*", count)
    \/ \E match \in {"*", "a*"}, count \in 1..MaxCount : ScanStart(match, count)
    \/ ScanNext
    \/ Tick

SpecKeys == Init /\ [][NextKeys]_vars

\* One sorted set: members added in every order, with equal and with distinct
\* scores, and rank and score ranges inside and outside of it.
ZKey == "z"
ZMembers == {"a", "b", "c"}
ZScores == 1..MaxScore
\* indexes before, inside and behind a set of three members
ZStarts == {-4, -2, 0, 1}
ZStops == {-1, 1, 3}

NextZ ==
    \/ \E score \in ZScores, member \in ZMembers : ZAdd(ZKey, score, member)
    \/ \E member \in ZMembers : ZRem(ZKey, <<member>>)
    \/ \E start \in ZStarts, stop \in ZStops : ZRange(ZKey, start, stop)
    \/ \E start \in ZStarts, stop \in ZStops : ZRevRange(ZKey, start, stop)
    \/ \E min \in ZScores, max \in ZScores : ZRangeByScore(ZKey, min, max)
    \/ \E min \in ZScores, max \in ZScores : ZRevRangeByScore(ZKey, max, min)
    \/ \E member \in ZMembers : ZRank(ZKey, member)
    \/ \E member \in ZMembers : ZScore(ZKey, member)
    \/ Del(<<ZKey>>)

SpecZ == Init /\ [][NextZ]_vars

\* The same sorted set read from both ends.
NextRank ==
    \/ \E score \in ZScores, member \in ZMembers : ZAdd(ZKey, score, member)
    \/ \E member \in ZMembers : ZRem(ZKey, <<member>>)
    \/ ZRange(ZKey, 0, -1)
    \/ ZRevRange(ZKey, 0, -1)
    \/ \E member \in ZMembers : ZRank(ZKey, member)
    \/ \E member \in ZMembers : ZRevRank(ZKey, member)
    \/ ZCard(ZKey)

SpecRank == Init /\ [][NextRank]_vars

\* Two sorted sets that share members, and a destination.
ZSources == <<"z1", "z2">>
ZDest == "d"

NextAlgebra ==
    \/ \E i \in 1..Len(ZSources), score \in 1..2, member \in {"a", "b"} :
          ZAdd(ZSources[i], score, member)
    \/ \E i \in 1..Len(ZSources) : Del(<<ZSources[i]>>)
    \/ ZUnionStore(ZDest, ZSources)
    \/ ZInterStore(ZDest, ZSources)
    \/ ZDiffStore(ZDest, ZSources)

SpecAlgebra == Init /\ [][NextAlgebra]_vars

\* An XMap on its own, with more keys than one shard holds.
XKeys == {"x1", "x2", "x3", "x4"}

NextXMap ==
    \/ \E key \in XKeys, value \in Values : XMapSet(key, value)
    \/ \E key \in XKeys : XMapGet(key)
    \/ \E key \in XKeys : XMapHas(key)
    \/ \E key \in XKeys : XMapDelete(key)
    \/ XMapSizeCmd
    \/ XMapClear

SpecXMap == Init /\ [][NextXMap]_vars

\* An XMap that is filled, emptied and iterated.
NextXIter ==
    \/ \E key \in XKeys, value \in Values : XMapSet(key, value)
    \/ \E key \in XKeys : XMapDelete(key)
    \/ XMapClear
    \/ XMapEntries
    \/ XMapKeysCmd
    \/ XMapValuesCmd

SpecXIter == Init /\ [][NextXIter]_vars

\* A set, a sorted set and a hash of up to two members (fields) each, and
\* cursor traversals of them with page sizes 1..MaxPage.
SKey == "s"
HKey == "h"
CollMembers == {"a", "b"}
CollScores == {1, 2}
MaxPage == 2

NextColl ==
    \/ \E member \in CollMembers : SAdd(SKey, <<member>>)
    \/ \E score \in CollScores, member \in CollMembers : ZAdd(ZKey, score, member)
    \/ \E field \in CollMembers : HSet(HKey, field, 1)
    \/ \E key \in {SKey, ZKey, HKey} : Del(<<key>>)
    \/ \E count \in 1..MaxPage : CollScanStart("sscan", SKey, count)
    \/ \E count \in 1..MaxPage : CollScanStart("zscan", ZKey, count)
    \/ \E count \in 1..MaxPage : CollScanStart("hscan", HKey, count)
    \/ CollScanNext

SpecColl == Init /\ [][NextColl]_vars

\* One key that is written as a scalar, a list, a plain set, a hash and a
\* sorted set, and the sorted-set commands applied to it.
TKey == "t"

NextType ==
    \/ \E value \in Values : Set(TKey, ScalarValue(value), "none")
    \/ \E member \in CollMembers : RPush(TKey, <<member>>)
    \/ \E member \in CollMembers : SAdd(TKey, <<member>>)
    \/ \E field \in CollMembers : HSet(TKey, field, 1)
    \/ Del(<<TKey>>)
    \/ \E score \in CollScores, member \in CollMembers : ZAdd(TKey, score, member)
    \/ \E member \in CollMembers : ZIncrBy(TKey, 1, member)
    \/ ZCard(TKey)
    \/ \E member \in CollMembers : ZScore(TKey, member)
    \/ ZRange(TKey, 0, -1)
    \/ \E member \in CollMembers : ZRem(TKey, <<member>>)

SpecType == Init /\ [][NextType]_vars

\* Entries and their deadlines: scalars and lists on two keys, with and
\* without deadlines, moved, popped, deleted, flushed and swept.
BRPopTimeouts == {0, 1}

NextEntry ==
    \/ \E key \in Keys, o \in {"none", "PX"} : Set(key, ScalarValue("0"), o)
    \/ \E key \in Keys : RPush(key, <<"a">>)
    \/ \E key \in Keys : PExpire(key, 1000, "none")
    \/ \E key \in Keys, newKey \in Keys : Rename(key, newKey)
    \/ \E oldKey \in Keys, newKey \in Keys : RenameNX(oldKey, newKey)
    \/ \E key \in Keys : Del(<<key>>)
    \/ FlushAll
    \/ \E timeout \in BRPopTimeouts, args \in {<<"k1">>, <<"k2", "k1">>} : BRPop(timeout, args)
    \/ CleanupTick
    \/ Tick

SpecEntry == Init /\ [][NextEntry]_vars

\* Conditional writes: set with NX and XX on keys never written, deleted,
\* live, and past their deadline with and without a reaping in between.
NextSet ==
    \/ \E key \in Keys, value \in Values, o \in {"none", "PX", "NX", "XX"} : Set(key, value, o)
    \/ \E key \in Keys : Get(key)
    \/ \E key \in Keys : Del(<<key>>)
    \/ CleanupTick
    \/ Tick

SpecSet == Init /\ [][NextSet]_vars

\* Writes of several keys or fields at once, with argument lists of even and
\* of odd length.
PairLists == {<<"k1">>, <<"k1", "0">>, <<"k1", "1", "k2">>, <<"k1", "1", "k2", "1">>}
FieldLists == {<<"a">>, <<"a", 1>>, <<"a", 1, "b">>, <<"a", 2, "b", 2>>}

NextBulk ==
    \/ \E keyValuePairs \in PairLists : MSet(keyValuePairs)
    \/ \E keyValuePairs \in PairLists : MSetNX(keyValuePairs)
    \/ \E fieldValuePairs \in FieldLists : HMSet(HKey, fieldValuePairs)
    \/ \E key \in Keys \cup {HKey} : Del(<<key>>)
    \/ \E key \in Keys, value \in Values : Set(key, value, "none")

SpecBulk == Init /\ [][NextBulk]_vars

\* The sweep on a memory-only instance: writes, deletes, renames and flushes,
\* the clock, and the interval callbacks, which setInterval keeps firing as
\* long as a timer is scheduled.
NextSweep ==
    \/ \E key \in Keys, o \in {"none", "PX", "EXATfrac"} : Set(key, "0", o)
    \/ \E key \in Keys : Del(<<key>>)
    \/ \E key \in Keys, newKey \in Keys : Rename(key, newKey)
    \/ FlushAll
    \/ CleanupTick
    \/ Tick

SpecSweep == Init /\ [][NextSweep]_vars /\ WF_<<last.op, vars>>(CleanupTick)

\* One name on which collections are created by their first write, given a
\* deadline, emptied, deleted and left to expire.
CKey == "k1"
CMember == "a"

NextCreate ==
    \/ PExpire(CKey, 500, "none")
    \/ RPush(CKey, <<CMember>>)
    \/ \E score \in 1..2 : ZAdd(CKey, score, CMember)
    \/ SAdd(CKey, <<CMember>>)
    \/ HSet(CKey, CMember, 1)
    \/ BRPop(1, <<CKey>>)
    \/ Del(<<CKey>>)
    \/ Ttl(CKey)
    \/ ZScore(CKey, CMember)
    \/ ZCard(CKey)
    \/ CleanupTick
    \/ Tick

SpecCreate == Init /\ [][NextCreate]_vars

\* An instance created with a dbName in a browser: the database holds what
\* an earlier instance left in it, and commands run while it is being opened
\* and read.
MirrorDeadlines == {Clock(0) - MsPerSec, Clock(MaxTicks) + MsPerSec}

InitDurable ==
    /\ store = <<>>
    /\ expireTimes = EmptyTable
    /\ cleanupLoop = "none"
    /\ leaked = 0
    /\ now = Clock(0)
    /\ walk = NoWalk
    /\ xmap = NewXMap
    /\ last = NoCall
    /\ \E K \in SUBSET Keys : \E E \in SUBSET K :
          \E mstore \in [K -> Values], mexpire \in [E -> MirrorDeadlines] :
             idb = [isIndexedDBAvailable |-> TRUE, db |-> FALSE, isInitialized |-> FALSE,
                    store |-> mstore, expireTimes |-> mexpire,
                    storeData |-> <<>>, expireTimesData |-> <<>>]

NextDurable ==
    \/ \E key \in Keys, value \in Values, o \in {"none", "PX"} : Set(key, value, o)
    \/ \E key \in Keys : Get(key)
    \/ \E key \in Keys : Del(<<key>>)
    \/ OpenDatabase
    \/ OpenDatabaseFails
    \/ LoadFromIndexedDB
    \/ LoadFails

SpecDurable == InitDurable /\ [][NextDurable]_vars


----------------------------------------------------------------------------
(* Properties *)

\* the step is a call of the command op
Did(op) == last'.op = op

\* the instance state after the step
CurNext == [store |-> store', expireTimes |-> expireTimes',
            cleanupLoop |-> cleanupLoop', leaked |-> leaked', idb |-> idb']

Range(f) == {f[i] : i \in DOMAIN f}

\* the deadline stored for key, as a set: empty when there is none
Deadline(e, key) == IF EHas(e, key) THEN {e[key]} ELSE {}

\* the clock has passed key's deadline
Passed(key) == EHas(expireTimes, key) /\ now > expireTimes[key]

\* key has a value and no deadline that the clock has passed
Live(key) == XHas(store, key) /\ ~Passed(key)

\* C1: set(k, v) without options, immediately followed by get(k), returns v,
\* whatever k held before; and after a set whose expiry option (EX, PX, EXAT,
\* PXAT) gives a deadline earlier than the current time, the immediately
\* following get(k) returns undefined.
C1_SetThenGet ==
    [][\A key \in Keys, value \in Values :
          /\ Did("set") /\ Set(key, value, "none") => get(CurNext, now', key).ret = value
          /\ \A o \in PastOptionNames :
                Did("set") /\ Set(key, value, o) => get(CurNext, now', key).ret = Undefined]_vars

\* C2: once the clock has passed a key's deadline, get and mget return
\* undefined for it, exists and del return 0 for it, and keys and scan do not
\* list it, whether or not a cleanup tick has run since.
C2_PassedDeadlineIsAbsent ==
    \A key \in Keys :
        Passed(key) =>
            /\ get(Cur, now, key).ret = Undefined
            /\ mget(Cur, now, <<key>>).ret = <<Undefined>>
            /\ exists(Cur, now, <<key>>).ret = 0
            /\ del(Cur, now, <<key>>).ret = 0
            /\ key \notin Range(keys(Cur, now, "*").ret)
            /\ \A cursor \in 0..Len(store) :
                  key \notin Range(scan(Cur, now, cursor, "*", Len(store)).ret[2])

\* the instance state in which key has been reaped: no value, no deadline
Reaped(s, key) == [s EXCEPT !.store = XDelete(s.store, key),
                            !.expireTimes = EDelete(s.expireTimes, key)]

\* C3: every command on a key first reaps the key if the clock has passed its
\* deadline: on such a key each command returns and leaves behind exactly what
\* it does when the key has already been reaped, so the stale value is never
\* returned, modified or made observable again.
C3_CommandsReapFirst ==
    \A key \in Keys :
        Passed(key) =>
            /\ get(Cur, now, key) = get(Reaped(Cur, key), now, key)
            /\ type(Cur, now, key) = type(Reaped(Cur, key), now, key)
            /\ ttl(Cur, now, key) = ttl(Reaped(Cur, key), now, key)
            /\ persist(Cur, now, key) = persist(Reaped(Cur, key), now, key)
            /\ expire(Cur, now, key, 1, "none") = expire(Reaped(Cur, key), now, key, 1, "none")
            /\ incrby(Cur, now, key, 1) = incrby(Reaped(Cur, key), now, key, 1)

\* C4: del on a live key removes its value and its deadline, so that exists
\* returns 0 and ttl returns -2 for it; del(k) alone returns 1; every key that
\* the call does not name keeps its value and its deadline.
C4_DelRemovesValueAndDeadline ==
    [][\A args \in KeyLists :
          Did("del") /\ Del(args) =>
              /\ \A key \in Range(args) :
                    Live(key) =>
                        /\ ~XHas(store', key)
                        /\ ~EHas(expireTimes', key)
                        /\ exists(CurNext, now', <<key>>).ret = 0
                        /\ ttl(CurNext, now', key).ret = -2
                        /\ args = <<key>> => last'.ret = 1
              /\ \A key \in Keys \ Range(args) :
                    /\ XGet(store', key) = XGet(store, key)
                    /\ Deadline(expireTimes', key) = Deadline(expireTimes, key)]_vars

\* C4 witness: del(k) has just returned 1, k is gone, and the other key still
\* has its value and a deadline
C4_Witness ==
    /\ last.op = "del" /\ Len(last.keys) = 1 /\ last.ret = 1
    /\ ~XHas(store, last.keys[1]) /\ ~EHas(expireTimes, last.keys[1])
    /\ \E key \in Keys \ {last.keys[1]} : XHas(store, key) /\ EHas(expireTimes, key)


----------------------------------------------------------------------------
(* Properties of expire, pexpire, expireat and pexpireat *)

\* the absolute deadlines the calls of NextTTL ask for
Requests ==
    {Clock(i) + seconds * MsPerSec : i \in 0..MaxTicks, seconds \in ExpireSeconds}
    \cup {Clock(i) + ttlMillis : i \in 0..MaxTicks, ttlMillis \in PExpireMillis}
    \cup {ts * MsPerSec : ts \in ExpireAtSeconds}
    \cup PExpireAtMillis

\* the step is a call of one of the four commands on key with option o that
\* asks for the absolute deadline n
FamilyCall(key, o, n) ==
    \/ Did("expire") /\ \E seconds \in ExpireSeconds :
          n = now + seconds * MsPerSec /\ Expire(key, seconds, o)
    \/ Did("pexpire") /\ \E ttlMillis \in PExpireMillis :
          n = now + ttlMillis /\ PExpire(key, ttlMillis, o)
    \/ Did("expireat") /\ \E ts \in ExpireAtSeconds :
          n = ts * MsPerSec /\ ExpireAt(key, ts, o)
    \/ Did("pexpireat") /\ \E ts \in PExpireAtMillis :
          n = ts /\ PExpireAt(key, ts, o)

\* C5: a call of expire, pexpire, expireat or pexpireat with NX on a key that
\* already has a deadline returns 0 and leaves the key's value and deadline as
\* they were (stated for requests ahead of the clock, which C10 does not cover).
C5_NXKeepsDeadline ==
    [][\A key \in Keys, n \in Requests :
          FamilyCall(key, "NX", n) /\ XHas(store, key) /\ EHas(expireTimes, key) /\ n > now =>
              /\ last'.ret = 0
              /\ XGet(store', key) = XGet(store, key)
              /\ Deadline(expireTimes', key) = Deadline(expireTimes, key)]_vars

\* C6: on a live key and for a deadline ahead of the clock, a call with NX
\* returns 1 and stores the deadline exactly when the key has no deadline, a
\* call with XX exactly when it has one; otherwise the call returns 0.
C6_NXXXByDeadline ==
    [][\A key \in Keys, n \in Requests, o \in {"NX", "XX"} :
          FamilyCall(key, o, n) /\ Live(key) /\ n > now =>
              IF (o = "NX") = ~EHas(expireTimes, key)
              THEN last'.ret = 1 /\ Deadline(expireTimes', key) = {n}
              ELSE last'.ret = 0]_vars

\* C7: a call with GT or with LT on a key that has a value and no deadline
\* returns 0 and records no deadline for the key.
C7_GTLTNeedDeadline ==
    [][\A key \in Keys, n \in Requests, o \in {"GT", "LT"} :
          FamilyCall(key, o, n) /\ XHas(store, key) /\ ~EHas(expireTimes, key) /\ n > now =>
              last'.ret = 0 /\ ~EHas(expireTimes', key)]_vars

\* C8: on a live key with deadline d, a call with GT that asks for n returns 1
\* and stores n only if n > d, a call with LT only if n < d; otherwise it
\* returns 0 and d stays.
C8_GTLTStrict ==
    [][\A key \in Keys, n \in Requests, o \in {"GT", "LT"} :
          FamilyCall(key, o, n) /\ Live(key) /\ EHas(expireTimes, key) /\ n > now =>
              LET d == expireTimes[key]
                  allowed == IF o = "GT" THEN n > d ELSE n < d
              IN  /\ last'.ret \in {0, 1}
                  /\ last'.ret = 1 => allowed /\ Deadline(expireTimes', key) = {n}
                  /\ ~allowed => last'.ret = 0 /\ Deadline(expireTimes', key) = {d}]_vars

\* C9: expire(key, s, {GT}) on a key whose deadline is earlier than now + s
\* seconds returns 0; expire(key, s, {LT}) on such a key returns 1 and stores
\* now + s seconds; expire(key, s, {LT}) on a key whose deadline is later than
\* now + s seconds returns 0.  The key is one that has a value.
C9_ExpireGTLT ==
    [][\A key \in Keys, seconds \in ExpireSeconds :
          Did("expire") /\ XHas(store, key) /\ EHas(expireTimes, key) =>
              LET d == expireTimes[key]
                  n == now + seconds * MsPerSec
              IN  /\ Expire(key, seconds, "GT") /\ d < n => last'.ret = 0
                  /\ Expire(key, seconds, "LT") /\ d < n =>
                        last'.ret = 1 /\ Deadline(expireTimes', key) = {n}
                  /\ Expire(key, seconds, "LT") /\ d > n => last'.ret = 0]_vars

\* C9 witness: expire with LT has just returned 1 on a key that has a value,
\* and the key's deadline is now ahead of the clock
C9_Witness ==
    /\ last.op = "expire" /\ last.opt = "LT" /\ last.ret = 1
    /\ XHas(store, last.keys[1])
    /\ EHas(expireTimes, last.keys[1]) /\ expireTimes[last.keys[1]] > now

\* C10: a call without option flags on a key that has a value, asking for a
\* deadline that is not later than the current time, returns 0 and deletes the
\* key: its value and its deadline are gone and no past deadline is stored.
C10_PastDeadlineDeletes ==
    [][\A key \in Keys, n \in Requests :
          FamilyCall(key, "none", n) /\ XHas(store, key) /\ n <= now =>
              /\ last'.ret = 0
              /\ ~XHas(store', key)
              /\ ~EHas(expireTimes', key)]_vars

----------------------------------------------------------------------------
(* Properties of ttl and pttl *)

\* C11: ttl(k) and pttl(k) return -2 when k has no value, -1 when k has a
\* value and no deadline, and a strictly positive remaining time when k has a
\* value and a deadline later than the current time.
C11_TtlValues ==
    \A key \in Keys :
        LET secs == ttl(Cur, now, key).ret
            millis == pttl(Cur, now, key).ret
        IN  /\ ~XHas(store, key) => secs = -2 /\ millis = -2
            /\ XHas(store, key) /\ ~EHas(expireTimes, key) => secs = -1 /\ millis = -1
            /\ XHas(store, key) /\ EHas(expireTimes, key) /\ expireTimes[key] > now =>
                  secs > 0 /\ millis > 0

----------------------------------------------------------------------------
(* Properties of keys and scan *)

\* key has a value and no deadline, or a deadline later than the clock
Unexpired(key) ==
    XHas(store, key) /\ (EHas(expireTimes, key) => expireTimes[key] > now)

\* the keys a listing with the pattern has to return, and those it may return:
\* a key whose deadline is the current millisecond is in the second set only
Required(pattern) == {key \in ListKeys : Unexpired(key) /\ simpleMatch(key, pattern)}

Allowed(pattern) ==
    {key \in ListKeys : XHas(store, key) /\ ~Passed(key) /\ simpleMatch(key, pattern)}

NoRepeats(seq) == \A i, j \in DOMAIN seq : i # j => seq[i] # seq[j]

C13_ExactPageKeepsCursor ==
    \A count \in 1..MaxCount, cursor \in 0..Len(store) :
        LET ks == keys(Cur, now, "*").ret
        IN  Len(ks) - cursor = count =>
                /\ scan(Cur, now, cursor, "*", count).ret =
                       <<cursor + count, SubSeq(ks, cursor + 1, Len(ks))>>
                /\ scan(Cur, now, Len(ks), "*", count + 1).ret = <<0, <<>>>>

\* C13 amended: when exactly `count` matching keys remain from the cursor,
\* scan returns them with the next cursor 0; a scan from the index one past
\* the last key returns cursor 0 and an empty page.  With three keys,
\* scan(0, "*", 3) returns (0, [key1, key2, key3]) and scan(3, "*", 4)
\* returns (0, []).
C13_ExactPageEndsScan ==
    \A count \in 1..MaxCount, cursor \in 0..Len(store) :
        LET ks == keys(Cur, now, "*").ret
        IN  Len(ks) - cursor = count =>
                /\ scan(Cur, now, cursor, "*", count).ret =
                       <<0, SubSeq(ks, cursor + 1, Len(ks))>>
                /\ scan(Cur, now, Len(ks), "*", count + 1).ret = <<0, <<>>>>

\* C13 witness: scan(0, "*", 3) has just returned the three keys of the store
\* in one page, with cursor 0
C13_Witness ==
    /\ walk.on /\ walk.cmd = "scan" /\ walk.match = "*"
    /\ walk.pages = 1 /\ walk.count = 3 /\ Len(walk.seen) = 3
    /\ last.op = "scan" /\ last.ret = <<0, walk.seen>>

\* what keys(pattern) and a scan of one page from cursor 0 select
Selected(pattern) == Range(keys(Cur, now, pattern).ret)

Scanned(pattern) == Range(scan(Cur, now, 0, pattern, Cardinality(ListKeys)).ret[2])

EqualIgnoringCase(key, pattern) == toLowerCase(Chars[key]) = toLowerCase(Chars[pattern])

BeginsIgnoringCase(key, c) ==
    Chars[key] # <<>> /\ LowerChar(Chars[key][1]) = LowerChar(c)

\* keys and scan select, among the keys that have a value, exactly those for
\* which Fits holds: every unexpired one, and none whose deadline has passed
SelectsExactly(pattern, Fits(_)) ==
    \A key \in ListKeys :
        /\ key \in Selected(pattern) \cup Scanned(pattern) =>
              XHas(store, key) /\ ~Passed(key) /\ Fits(key)
        /\ Unexpired(key) /\ Fits(key) =>
              key \in Selected(pattern) /\ key \in Scanned(pattern)

----------------------------------------------------------------------------
(* Properties of the sorted set *)

\* the entries of the sorted set before and after the step
ZNow == entriesOf(Cur, ZKey)

ZNext == entriesOf(CurNext, ZKey)

\* C17: zadd(key, score, member) returns 1 when the member was not yet in the
\* sorted set and 0 when the call only updated the score of a member of it.
C17_ZaddCountsNew ==
    [][\A score \in ZScores, member \in ZMembers :
          Did("zadd") /\ ZAdd(ZKey, score, member) =>
              last'.ret = IF XHas(ZNow, member) THEN 0 ELSE 1]_vars

\* members in ascending order
Alphabet == <<"a", "b", "c">>

Rank(member) == CHOOSE i \in 1..Len(Alphabet) : Alphabet[i] = member

\* the members ms, each with its score
Scored(ms) == [i \in 1..Len(ms) |-> <<ms[i], XGet(ZNow, ms[i])>>]

\* the <<member, score>> pairs ps run by score, upwards or downwards, and
\* members of equal score run upwards by member
Ordered(ps, descending) ==
    \A i \in 1..(Len(ps) - 1) :
        /\ IF descending THEN ps[i][2] >= ps[i + 1][2] ELSE ps[i][2] <= ps[i + 1][2]
        /\ ps[i][2] = ps[i + 1][2] => Rank(ps[i][1]) < Rank(ps[i + 1][1])

\* C18: the results of zrange and zrangebyscore are non-decreasing in score,
\* those of zrevrange and zrevrangebyscore non-increasing; members of equal
\* score are in ascending order of member, whatever order they were added in.
C18_RangesOrdered ==
    /\ Ordered(zrange(Cur, now, ZKey, 0, -1).ret, FALSE)
    /\ Ordered(Scored(zrangebyscore(Cur, now, ZKey, 1, MaxScore).ret), FALSE)
    /\ Ordered(zrevrange(Cur, now, ZKey, 0, -1).ret, TRUE)
    /\ Ordered(Scored(zrevrangebyscore(Cur, now, ZKey, MaxScore, 1).ret), TRUE)

\* the members of the <<member, score>> pairs ps
First(ps) == [i \in 1..Len(ps) |-> ps[i][1]]

Without(seq, x) == SelectSeq(seq, LAMBDA y : y # x)

\* C19: zrangebyscore(key, min, max) returns exactly the members whose score s
\* has min <= s <= max, each once; once zrem(key, m) has removed m, m is in no
\* range, has no rank and no score, and every other member keeps its score and
\* its place relative to the others.
C19_ByScoreAndZrem ==
    [][/\ \A min \in ZScores, max \in ZScores :
             Did("zrangebyscore") /\ ZRangeByScore(ZKey, min, max) =>
                 /\ NoRepeats(last'.ret)
                 /\ Range(last'.ret) =
                        {m \in ZMembers :
                            XHas(ZNow, m) /\ min <= XGet(ZNow, m) /\ XGet(ZNow, m) <= max}
       /\ \A m \in ZMembers :
             Did("zrem") /\ ZRem(ZKey, <<m>>) /\ XHas(ZNow, m) =>
                 /\ last'.ret = 1
                 /\ ~XHas(ZNext, m)
                 /\ zrank(CurNext, now', ZKey, m).ret = Undefined
                 /\ zscore(CurNext, now', ZKey, m).ret = Undefined
                 /\ First(zrange(CurNext, now', ZKey, 0, -1).ret) =
                        Without(First(zrange(Cur, now, ZKey, 0, -1).ret), m)
                 /\ First(zrevrange(CurNext, now', ZKey, 0, -1).ret) =
                        Without(First(zrevrange(Cur, now, ZKey, 0, -1).ret), m)
                 /\ zrangebyscore(CurNext, now', ZKey, 1, MaxScore).ret =
                        Without(zrangebyscore(Cur, now, ZKey, 1, MaxScore).ret, m)
                 /\ \A other \in ZMembers \ {m} :
                        XHas(ZNow, other) =>
                            zscore(CurNext, now', ZKey, other).ret = XGet(ZNow, other)]_vars

\* C19 witness: zrem has just removed the second of three members, and the
\* two that remain have different scores
C19_Witness ==
    /\ last.op = "zrem" /\ last.ret = 1 /\ last.keys = <<ZKey, "b">>
    /\ Len(ZNow) = 2 /\ ZNow[1].v < ZNow[2].v

\* C20: for a sorted set of n members, zrange and zrevrange with start -m and
\* stop -1 return all n members when m > n, and with a stop index >= n they
\* return through the last member.
C20_IndexesClamped ==
    LET n == Len(ZNow)
    IN  \A over \in 1..2 :
            /\ zrange(Cur, now, ZKey, 0 - n - over, -1).ret = pairs(sortByScore(ZNow, FALSE))
            /\ zrevrange(Cur, now, ZKey, 0 - n - over, -1).ret = pairs(sortByScore(ZNow, TRUE))
            /\ \A start \in 0..n :
                  /\ zrange(Cur, now, ZKey, start, n + over - 1).ret =
                         zrange(Cur, now, ZKey, start, n - 1).ret
                  /\ zrevrange(Cur, now, ZKey, start, n + over - 1).ret =
                         zrevrange(Cur, now, ZKey, start, n - 1).ret

----------------------------------------------------------------------------
(* Properties of sscan, zscan and hscan *)

\* what a complete traversal of the collection at key has to return: the
\* members of a set, the <<member, score>> pairs of a sorted set, the
\* <<field, value>> pairs of a hash
Contents(key) ==
    IF ~XHas(store, key) THEN {}
    ELSE IF XGet(store, key).kind = "Set" THEN Range(XGet(store, key).items)
    ELSE Range(pairs(XGet(store, key).items))

\* C14: a traversal by sscan, zscan or hscan with the default match pattern
\* that started at cursor 0 and followed the returned cursor until it was 0,
\* with no command in between, has returned every member (field) of the
\* collection exactly once.
C14_CollectionScans ==
    walk.on /\ walk.cmd \in {"sscan", "zscan", "hscan"} /\ walk.cursor = 0 =>
        NoRepeats(walk.seen) /\ Range(walk.seen) = Contents(walk.key)

----------------------------------------------------------------------------
(* Properties of XMap *)

\* C16: after any sequence of set, get, has, delete and clear calls, each call
\* on the XMap has returned what the same call on a single unbounded map
\* returned, and the XMap has the size, the keys and the values of that map,
\* also when the keys outnumber one shard's capacity and further shards have
\* been allocated: no insertion is dropped or refused.
C16_XMapIsOneMap ==
    /\ xmap.ret = xmap.refRet
    /\ poolSize(xmap.pool) = Cardinality(DOMAIN xmap.ref)
    /\ \A key \in XKeys :
          /\ poolHas(xmap.pool, key) = EHas(xmap.ref, key)
          /\ EHas(xmap.ref, key) => poolGet(xmap.pool, key) = xmap.ref[key]
          /\ ~EHas(xmap.ref, key) => poolGet(xmap.pool, key) = Undefined

\* C16 witness: a set has just been answered by an XMap that has allocated a
\* further shard and holds more keys than one shard does
C16_Witness ==
    /\ xmap.op = "set"
    /\ Len(xmap.pool) >= 2
    /\ poolSize(xmap.pool) > ShardCapacity

----------------------------------------------------------------------------
(* Properties of keys of several variants *)

OrderedCommands == {"zadd", "zincrby", "zcard", "zscore", "zrange", "zrem"}

\* the variant of the value a key holds that can be told from a sorted set
OtherVariant(key) ==
    XHas(store, key) /\ XGet(store, key).kind \in {"string", "Array", "Set"}

\* C21: a sorted-set command (zadd, zincrby, zcard, zscore, zrange, zrem)
\* called on a key that holds a scalar, a list or a plain set reports an error
\* to the caller and leaves the value of the key as it was.
C21_WrongVariantIsAnError ==
    [][\A op \in OrderedCommands :
          Did(op) /\ OtherVariant(TKey) =>
              /\ last'.err
              /\ store' = store]_vars

----------------------------------------------------------------------------
(* Properties of entries and their deadlines *)

\* C22: after rename(a, b) with a present and a # b, b holds the value a held
\* and the deadline state a had (a's deadline, or no deadline if a had none,
\* whatever deadline b had), and a has neither a value nor a deadline.
C22_RenameMovesDeadline ==
    [][\A a \in Keys, b \in Keys :
          Did("rename") /\ a # b /\ last'.keys = <<a, b>> /\ XHas(store, a) =>
              /\ XHas(store', b) /\ XGet(store', b) = XGet(store, a)
              /\ EHas(expireTimes, a) =>
                    EHas(expireTimes', b) /\ expireTimes'[b] = expireTimes[a]
              /\ ~EHas(expireTimes, a) => ~EHas(expireTimes', b)
              /\ ~XHas(store', a)
              /\ ~EHas(expireTimes', a)]_vars

\* C26: in every reachable state every key of the deadline table has a value
\* in the store.
C26_DeadlineHasValue ==
    \A key \in DOMAIN expireTimes : XHas(store, key)

\* a step of brpop that returns the last element of the first listed key that
\* holds a non-empty list, and takes it off that list
Popped(args) ==
    LET key == args[first(poppable(Cur, args))]
        list == XGet(store, key).items
    IN  /\ last'.ret = <<key, list[Len(list)]>>
        /\ IF Len(list) = 1 THEN ~XHas(store', key)
           ELSE XHas(store', key) /\ XGet(store', key).items = SubSeq(list, 1, Len(list) - 1)

\* C25: brpop(timeout, ...keys) with timeout >= 0 returns: with [key, last
\* element] of the first listed key that holds a non-empty list, which loses
\* that element, or, if no listed key holds one, with null when at most
\* timeout seconds have passed.
C25_BrpopPopsOrTimesOut ==
    [][Did("brpop") /\ last'.opt[1] >= 0 =>
          IF poppable(Cur, last'.keys) # {} THEN Popped(last'.keys)
          ELSE last'.ret = Null /\ now' <= now + last'.opt[1] * MsPerSec]_<<last.op, vars>>

\* the value and the deadline of key are what they were before the step
Untouched(key) ==
    /\ XHas(store', key) = XHas(store, key)
    /\ XHas(store, key) => XGet(store', key) = XGet(store, key)
    /\ Deadline(expireTimes', key) = Deadline(expireTimes, key)

\* C23: set(k, v, {NX: true}) stores v and returns true exactly when k is
\* logically absent (never written, deleted, or past its deadline) and
\* otherwise returns undefined and leaves k's value and deadline as they were;
\* set(k, v, {XX: true}) stores v and returns true exactly when k is logically
\* present and otherwise returns undefined and does not create k.
C23_SetNXXX ==
    [][\A key \in Keys, value \in Values :
          /\ Did("set") /\ Set(key, value, "NX") =>
                IF ~Live(key)
                THEN last'.ret = True /\ XHas(store', key) /\ XGet(store', key) = value
                ELSE last'.ret = Undefined /\ Untouched(key)
          /\ Did("set") /\ Set(key, value, "XX") =>
                IF Live(key)
                THEN last'.ret = True /\ XHas(store', key) /\ XGet(store', key) = value
                ELSE last'.ret = Undefined /\ ~Live(key)']_<<last.op, vars>>

\* C24: mset, msetnx and hmset called with a key/value (field/value) list of
\* odd length report an error and change nothing in the store.
C24_OddListIsAnError ==
    [][/\ (last'.op \in {"mset", "msetnx"} /\ Len(last'.keys) % 2 = 1) =>
             (last'.err /\ store' = store /\ expireTimes' = expireTimes)
       /\ (Did("hmset") /\ Len(last'.keys) % 2 = 0) =>
             (last'.err /\ store' = store /\ expireTimes' = expireTimes)]_<<last.op, vars>>

----------------------------------------------------------------------------
(* Properties of the deadline commands taken together *)

\* two results agree on what is returned and on the deadline left for key
SameOutcome(x, y, key) ==
    /\ x.ret = y.ret
    /\ Deadline(x.s.expireTimes, key) = Deadline(y.s.expireTimes, key)

\* C27: in one and the same state, with one and the same option flag, expire,
\* pexpire, expireat and pexpireat asked for the same absolute deadline return
\* the same result and leave the same deadline for the key.
C27_OnePolicy ==
    \A key \in Keys, o \in ExpireOptions, seconds \in ExpireSeconds :
        LET n == now + seconds * MsPerSec
            byExpire == expire(Cur, now, key, seconds, o)
        IN  /\ SameOutcome(byExpire, pexpire(Cur, now, key, seconds * MsPerSec, o), key)
            /\ SameOutcome(byExpire, pexpireat(Cur, now, key, n), key)
            /\ n % MsPerSec = 0 =>
                  SameOutcome(byExpire, expireat(Cur, now, key, n \div MsPerSec, o), key)

\* C28: ttl(k) or pttl(k) on a key whose stored deadline is not later than the
\* clock returns -2 and deletes the key, value and deadline, so that the store
\* no longer holds it afterwards.
C28_TtlReaps ==
    [][\A key \in Keys :
          /\ last'.op \in {"ttl", "pttl"}
          /\ last'.keys = <<key>>
          /\ EHas(expireTimes, key)
          /\ expireTimes[key] <= now
          => /\ last'.ret = -2
             /\ ~XHas(store', key)
             /\ ~EHas(expireTimes', key)]_<<last.op, vars>>

----------------------------------------------------------------------------
(* Properties of the sweep *)

\* key has a value and a deadline that the clock has passed
Stale(key) == XHas(store, key) /\ Passed(key)

\* key has neither a value nor a deadline
Gone(key) == ~XHas(store, key) /\ ~EHas(expireTimes, key)

\* C29: a key with a value and a deadline that the clock has passed is
\* eventually removed by the sweep, value and deadline, unless a command writes
\* it again first, whatever commands came before.
C29_SweepRemoves ==
    \A key \in Keys : Stale(key) ~> (Gone(key) \/ ~Passed(key))

\* no interval timer of the instance is scheduled
NoTimer == cleanupLoop # "active" /\ leaked = 0

\* C30: once the store is empty, every sweep timer of the instance is
\* eventually cancelled unless the store is written again first, whatever
\* writes, deletes, renames and flushes came before.
C30_TimersCancelled ==
    (Len(store) = 0) ~> (NoTimer \/ Len(store) # 0)

----------------------------------------------------------------------------
(* Properties of the shards of XMap *)

\* C31: in an XMap every key is stored in at most one shard, after every
\* sequence of set, delete and clear calls.
C31_KeyInOneShard ==
    \A key \in XKeys : Cardinality(holders(xmap.pool, key)) <= 1

\* C31 witness: a set has been answered while a key sits in an older shard
\* only and the newest shard still has room for it
C31_Witness ==
    /\ xmap.op = "set"
    /\ Len(xmap.pool) >= 2
    /\ Len(xmap.pool[1]) \in 1..(ShardCapacity - 1)
    /\ \E key \in XKeys : holders(xmap.pool, key) = {2}

\* the keys an XMap holds
poolKeySet(pool) == {key \in XKeys : poolHas(pool, key)}

Pos(seq, x) == CHOOSE i \in 1..Len(seq) : seq[i] = x

\* the shard that holds key
shardOf(pool, key) == first(holders(pool, key))

----------------------------------------------------------------------------
(* Properties of the two directions of a sorted set *)

Reverse(seq) == [i \in 1..Len(seq) |-> seq[Len(seq) + 1 - i]]

\* C34: zrevrange(key, 0, -1) returns the result of zrange(key, 0, -1) in
\* reverse, and zrevrank(key, m) returns zcard(key) - 1 - zrank(key, m) for
\* every member m of the sorted set, also when members share a score.
C34_ReverseMirrors ==
    [][ /\ Did("zrevrange") =>
             last'.ret = Reverse(zrange(Cur, now, ZKey, 0, -1).ret)
        /\ Did("zrevrank") /\ XHas(ZNow, last'.keys[2]) =>
             last'.ret = zcard(Cur, now, ZKey).ret - 1
                           - zrank(Cur, now, ZKey, last'.keys[2]).ret
      ]_<<last.op, vars>>

\* no two members of the sorted set share a score
DistinctScores == \A i, j \in 1..Len(ZNow) : i # j => ZNow[i].v # ZNow[j].v

\* the same for sorted sets whose scores are all different
C34_ReverseMirrorsDistinct ==
    [][ DistinctScores =>
        /\ Did("zrevrange") =>
             last'.ret = Reverse(zrange(Cur, now, ZKey, 0, -1).ret)
        /\ Did("zrevrank") /\ XHas(ZNow, last'.keys[2]) =>
             last'.ret = zcard(Cur, now, ZKey).ret - 1
                           - zrank(Cur, now, ZKey, last'.keys[2]).ret
      ]_<<last.op, vars>>

----------------------------------------------------------------------------
(* Properties of the storing set-algebra commands *)

\* the members of the sorted set at key, and the score of one of them
MembersAt(s, key) == {entriesOf(s, key)[i].k : i \in 1..Len(entriesOf(s, key))}

ScoreAt(s, key, m) == XGet(entriesOf(s, key), m)

\* the score m has at key, 0 when it is not a member
ScoreOr0(s, key, m) == IF m \in MembersAt(s, key) THEN ScoreAt(s, key, m) ELSE 0

Src1 == ZSources[1]

Src2 == ZSources[2]

\* the destination holds exactly the members ms, and the call returned
\* their number without an error
Stored(ms) ==
    /\ ~last'.err
    /\ MembersAt(CurNext, ZDest) = ms
    /\ Len(entriesOf(CurNext, ZDest)) = Cardinality(ms)
    /\ last'.ret = Cardinality(ms)

UnionStores ==
    Did("zunionstore") =>
        /\ Stored(MembersAt(Cur, Src1) \cup MembersAt(Cur, Src2))
        /\ \A m \in MembersAt(CurNext, ZDest) :
              ScoreAt(CurNext, ZDest, m) = ScoreOr0(Cur, Src1, m) + ScoreOr0(Cur, Src2, m)

InterStores ==
    Did("zinterstore") =>
        /\ Stored(MembersAt(Cur, Src1) \cap MembersAt(Cur, Src2))
        /\ \A m \in MembersAt(CurNext, ZDest) :
              ScoreAt(CurNext, ZDest, m) = Max(ScoreAt(Cur, Src1, m), ScoreAt(Cur, Src2, m))

DiffStores ==
    Did("zdiffstore") =>
        /\ Stored(MembersAt(Cur, Src1) \ MembersAt(Cur, Src2))
        /\ \A m \in MembersAt(CurNext, ZDest) :
              ScoreAt(CurNext, ZDest, m) = ScoreAt(Cur, Src1, m)

\* C35: zunionstore, zinterstore and zdiffstore complete without an error;
\* zunionstore stores every member of a source with the sum of its scores,
\* zinterstore every member of all sources with the largest of its scores,
\* zdiffstore the members of the first source that no other source has,
\* with their score; each returns the number of members it stored.
C35_StoreAlgebra ==
    [][UnionStores /\ InterStores /\ DiffStores]_<<last.op, vars>>

\* the part of it that is about zunionstore
C35_UnionStoresSum == [][UnionStores]_<<last.op, vars>>

----------------------------------------------------------------------------
(* Properties of the startup load *)

\* C36: on an instance with the durable mirror, a write made before the
\* startup load has completed is neither lost nor overwritten by the load:
\* the step that completes the load leaves get(k) as it was for every key
\* the instance holds, the store of a starting instance holding nothing but
\* what was written through it.
C36_LoadKeepsWrites ==
    [][Did("loadFromIndexedDB") =>
         \A key \in Keys :
            XHas(store, key) => get(CurNext, now', key).ret = get(Cur, now, key).ret
      ]_<<last.op, vars>>

\* the same for a load that finds none of the instance's keys in the database
C36_LoadKeepsOtherWrites ==
    [][Did("loadFromIndexedDB") =>
         \A key \in Keys :
            /\ XHas(store, key)
            /\ \A i \in 1..Len(idb.storeData) : idb.storeData[i].key # key
            /\ \A i \in 1..Len(idb.expireTimesData) : idb.expireTimesData[i].key # key
            => get(CurNext, now', key).ret = get(Cur, now, key).ret
      ]_<<last.op, vars>>

----------------------------------------------------------------------------
(* Properties of one sweep tick *)

\* the step leaves key's value and deadline as they are
Same(key) ==
    /\ XHas(store', key) = XHas(store, key)
    /\ XGet(store', key) = XGet(store, key)
    /\ Deadline(expireTimes', key) = Deadline(expireTimes, key)

\* after the step key has neither a value nor a deadline
GoneNext(key) == ~XHas(store', key) /\ ~EHas(expireTimes', key)

\* C37: a sweep tick, wherever it falls between two commands, removes only
\* keys whose deadline is earlier than the current time, removes the value
\* and the deadline of each such key, both in the one tick, and leaves every
\* key without a deadline or with a later deadline unchanged.
C37_SweepTick ==
    [][Did("sweep") =>
         \A key \in Keys :
            /\ ~Same(key) => Passed(key)
            /\ Stale(key) => GoneNext(key)
            /\ ~Passed(key) => Same(key)
      ]_<<last.op, vars>>

\* the same, a key with a passed deadline being either removed, value and
\* deadline, or left as it is
C37_SweepTickAllOrNothing ==
    [][Did("sweep") =>
         \A key \in Keys :
            /\ ~Same(key) => Passed(key)
            /\ Stale(key) => GoneNext(key) \/ Same(key)
            /\ Stale(key) /\ expireTimes[key] # 0 => GoneNext(key)
            /\ ~Passed(key) => Same(key)
      ]_<<last.op, vars>>

----------------------------------------------------------------------------
(* Properties of the sweep timer *)

\* the interval timers of the instance that are scheduled
Scheduled == (IF cleanupLoop = "active" THEN 1 ELSE 0) + leaked

\* C38: at most one sweep timer of the instance is scheduled at any time: no
\* write starts a second one while an earlier one is still scheduled.
C38_OneTimer == Scheduled <= 1

----------------------------------------------------------------------------
(* Properties of keys created by their first write *)

Creators == {"zadd", "sadd", "rpush", "hset"}

\* C39: a key created on an absent name by zadd, sadd, rpush or hset has no
\* deadline: ttl returns -1 for it right after the write, whatever happened
\* to a key of that name before.
C39_CreatedWithoutDeadline ==
    [][last'.op \in Creators /\ ~last'.err /\ ~XHas(store, CKey)
         => ttl(CurNext, now', CKey).ret = -1
      ]_<<last.op, vars>>

\* the same for names that have no deadline left over when the key is created
C39_CreatedOnCleanName ==
    [][last'.op \in Creators /\ ~last'.err /\ ~XHas(store, CKey) /\ ~EHas(expireTimes, CKey)
         => ttl(CurNext, now', CKey).ret = -1
      ]_<<last.op, vars>>

\* C40: after zadd(key, score, member) has returned, zscore(key, member)
\* is score and zcard(key) counts the member, also when the key carried a
\* deadline that had passed before the call: then the member is alone in a
\* fresh sorted set.
C40_ZaddIsNotDropped ==
    [][Did("zadd") /\ ~last'.err =>
         /\ XHas(entriesOf(CurNext, CKey), CMember)
         /\ zscore(CurNext, now', CKey, CMember).ret = last'.opt[1]
         /\ zcard(CurNext, now', CKey).ret = Len(entriesOf(CurNext, CKey))
         /\ Passed(CKey) => entriesOf(CurNext, CKey) = <<[k |-> CMember, v |-> last'.opt[1]]>>
      ]_<<last.op, vars>>

\* the same for keys whose deadline, if any, has not passed
C40_ZaddOnLiveKey ==
    [][Did("zadd") /\ ~last'.err /\ ~isExpired(Cur, now, CKey) =>
         /\ XHas(entriesOf(CurNext, CKey), CMember)
         /\ zscore(CurNext, now', CKey, CMember).ret = last'.opt[1]
         /\ zcard(CurNext, now', CKey).ret = Len(entriesOf(CurNext, CKey))
      ]_<<last.op, vars>>

====
